---- MODULE Spec2Model ----
(***************************************************************************)
(* Medusa /api/v2/config request handler                                   *)
(* (src/medusa/server/api/v2/config.py).                                   *)
(*                                                                         *)
(* The configuration store `app` is a record of attributes.  A request is  *)
(* handled atomically (the handler is synchronous and runs on one thread), *)
(* so each HTTP operation is one action; the order of the effects inside   *)
(* one request is kept in the `events` log of that request.                *)
(***************************************************************************)
EXTENDS Integers, Sequences, FiniteSets, TLC

VARIABLES
  app,        \* medusa.app: the process-wide configuration store
  disk,       \* the store as last written by app.instance.save_config()
  pushed,     \* every ws.Message pushed so far
  request,    \* the request handled last
  response,   \* its response: [status, data]
  accepted,   \* http_patch's local `accepted` as the request left it
  ignored,    \* http_patch's local `ignored` as the request left it
  events,     \* the side effects of the last request, in the order they happened
  preApp,     \* app as it was when the last request arrived
  npatch      \* number of PATCH requests handled

vars == <<app, disk, pushed, request, response, accepted, ignored, events, preApp, npatch>>

-----------------------------------------------------------------------------
(* Bounds                                                                  *)

MaxLeaves == 2     \* settings in one PATCH body
MaxPatches == 1    \* PATCH requests in one behaviour

-----------------------------------------------------------------------------
(* JSON / Python values, tagged by type                                    *)

None == [k |-> "none"]
B(b) == [k |-> "bool", b |-> b]
I(n) == [k |-> "int", n |-> n]
S(s) == [k |-> "str", s |-> s]
L(l) == [k |-> "list", l |-> l]
D(d) == [k |-> "dict", d |-> d]            \* d: the entries, in key iteration order
External(name) == [k |-> "ext", name |-> name]  \* a value owned by a collaborator
E(key, val) == [key |-> key, val |-> val]

Min(set) == CHOOSE x \in set : \A y \in set : x <= y

\* Python truth value
truthy(v) ==
  CASE v.k = "none" -> FALSE
    [] v.k = "bool" -> v.b
    [] v.k = "int"  -> v.n # 0
    [] v.k = "str"  -> v.s # ""
    [] v.k = "list" -> v.l # <<>>
    [] v.k = "dict" -> v.d # <<>>
    [] OTHER -> TRUE

\* bool(v)
bool(v) == B(truthy(v))

\* the decimal strings int() parses in this model; any other string is not a number
Numerals == [s \in {"0", "1", "2", "3", "5", "7", "99"} |->
               CASE s = "0" -> 0 [] s = "1" -> 1 [] s = "2" -> 2 [] s = "3" -> 3
                 [] s = "5" -> 5 [] s = "7" -> 7 [] s = "99" -> 99]

\* int(v) raises TypeError or ValueError exactly when ~int_ok(v)
int_ok(v) ==
  \/ v.k \in {"int", "bool"}
  \/ v.k = "str" /\ v.s \in DOMAIN Numerals

int(v) ==
  CASE v.k = "int"  -> v
    [] v.k = "bool" -> I(IF v.b THEN 1 ELSE 0)
    [] v.k = "str"  -> I(Numerals[v.s])

\* Python ==, as far as the values of this model go (True == 1, False == 0)
py_eq(a, b) ==
  IF a.k \in {"int", "bool"} /\ b.k \in {"int", "bool"} THEN int(a).n = int(b).n ELSE a = b

-----------------------------------------------------------------------------
(* Mappings: a dict is the sequence of its entries in insertion order      *)

Keys(d) == {d[i].key : i \in 1..Len(d)}
Has(d, key) == key \in Keys(d)
IndexOf(d, key) == CHOOSE i \in 1..Len(d) : d[i].key = key
Get(d, key) == d[IndexOf(d, key)].val
\* d[key] = val: a present key keeps its place, a new key goes last
Put(d, key, val) ==
  IF Has(d, key) THEN [d EXCEPT ![IndexOf(d, key)].val = val] ELSE Append(d, E(key, val))
\* d.pop(key)
Del(d, key) == LET i == IndexOf(d, key) IN SubSeq(d, 1, i - 1) \o SubSeq(d, i + 1, Len(d))

\* the position of the first '.' of s at or after i, 0 when there is none
RECURSIVE find_dot(_, _)
find_dot(s, i) ==
  IF i > Len(s) THEN 0
  ELSE IF SubSeq(s, i, i) = "." THEN i
  ELSE find_dot(s, i + 1)

\* key.split('.')
RECURSIVE split(_)
split(s) ==
  LET i == find_dot(s, 1)
  IN IF i = 0 THEN <<s>>
     ELSE <<SubSeq(s, 1, i - 1)>> \o split(SubSeq(s, i + 1, Len(s)))

\* iter_nested_items(data, prefix): the leaves of a tree with their dotted
\* paths, depth first in key iteration order; a nested mapping is never a leaf
RECURSIVE iter_nested_items(_, _)
iter_nested_items(data, prefix) ==
  IF data = <<>> THEN <<>>
  ELSE LET e == Head(data)
           p == prefix \o e.key
       IN (IF e.val.k = "dict" THEN iter_nested_items(e.val.d, p \o ".")
           ELSE <<E(p, e.val)>>)
          \o iter_nested_items(Tail(data), prefix)

\* set_nested_value cannot walk through a segment that holds a non-tree value
RECURSIVE can_set_keys(_, _)
can_set_keys(data, keys) ==
  \/ Len(keys) = 1
  \/ ~Has(data, keys[1])
  \/ /\ Get(data, keys[1]).k = "dict"
     /\ can_set_keys(Get(data, keys[1]).d, Tail(keys))

RECURSIVE set_keys(_, _, _)
set_keys(data, keys, value) ==
  IF Len(keys) = 1 THEN Put(data, keys[1], value)
  ELSE LET sub == IF Has(data, keys[1]) THEN Get(data, keys[1]) ELSE D(<<>>)   \* setdefault
       IN Put(data, keys[1], D(set_keys(sub.d, Tail(keys), value)))

\* set_nested_value(data, key, value)
can_set_nested_value(data, key) == can_set_keys(data, split(key))
set_nested_value(data, key, value) == set_keys(data, split(key), value)

\* the dotted paths of the leaves of a tree
Paths(tree) == LET items == iter_nested_items(tree, "") IN {items[i].key : i \in 1..Len(items)}

\* the value a tree holds under a dotted path, None when the path is absent
RECURSIVE get_keys(_, _)
get_keys(data, keys) ==
  IF ~Has(data, keys[1]) THEN None
  ELSE IF Len(keys) = 1 THEN Get(data, keys[1])
  ELSE IF Get(data, keys[1]).k # "dict" THEN None
  ELSE get_keys(Get(data, keys[1]).d, Tail(keys))

RECURSIVE has_keys(_, _)
has_keys(data, keys) ==
  /\ Has(data, keys[1])
  /\ \/ Len(keys) = 1
     \/ /\ Get(data, keys[1]).k = "dict"
        /\ has_keys(Get(data, keys[1]).d, Tail(keys))

has_path(tree, key) == has_keys(tree, split(key))
get_path(tree, key) == get_keys(tree, split(key))

\* NonEmptyDict: an assignment of None or of '' is dropped
NonEmptyDict(entries) ==
  D(SelectSeq(entries, LAMBDA e : e.val # None /\ e.val # S("")))

-----------------------------------------------------------------------------
(* Fields                                                                  *)

SKIPPED == I(5)
WANTED == I(3)
IGNORED == I(7)

Field(attr, kind) ==
  [attr |-> attr, kind |-> kind, enums |-> <<>>, default_value |-> None,
   validator |-> "none", converter |-> "none", setter |-> "none", post_processor |-> "none"]

StringField(attr) == Field(attr, "String")
BooleanField(attr) == Field(attr, "Boolean")
IntegerField(attr) == Field(attr, "Integer")
ListField(attr) == Field(attr, "List")
EnumField(attr, enums, default_value) ==
  [Field(attr, "Enum") EXCEPT !.enums = enums, !.default_value = default_value]

\* the combined qualities Quality.is_valid_combined_quality accepts
ValidQualities == {3, 12}

is_valid_combined_quality(value) == value.k = "int" /\ value.n \in ValidQualities

\* the post processor without its test of v
layout_schedule_post_processor_untested(store, v) == [store EXCEPT !.COMING_EPS_SORT = S("date")]

\* the post processor switching the sort back when it already is 'date'
layout_schedule_post_processor_toggling(store, v) ==
  IF py_eq(v, S("calendar"))
  THEN [store EXCEPT !.COMING_EPS_SORT = IF @ = S("date") THEN S("network") ELSE S("date")]
  ELSE store

\* def layout_schedule_post_processor(v)
layout_schedule_post_processor(store, v) ==
  IF py_eq(v, S("calendar")) THEN [store EXCEPT !.COMING_EPS_SORT = S("date")] ELSE store

\* config.change_theme(value)
change_theme(store, value) == [store EXCEPT !.THEME_NAME = value]

\* def theme_name_setter(object, name, value)
theme_name_setter(store, name, value) == change_theme(store, value)

\* season_folders_validator without its test of NAMING_FORCE_FOLDERS
season_folders_validator_unguarded(store, value) == TRUE

\* def season_folders_validator(value)
season_folders_validator(store, value) ==
  ~(truthy(store.NAMING_FORCE_FOLDERS) /\ value = B(FALSE))

\* validator=lambda v: app.USE_SUBTITLES
use_subtitles_validator(store, value) == truthy(store.USE_SUBTITLES)

run_validator(name, store, value) ==
  CASE name = "none" -> TRUE
    [] name = "is_valid_combined_quality" -> is_valid_combined_quality(value)
    [] name = "use_subtitles" -> use_subtitles_validator(store, value)
    [] name = "season_folders_validator" -> season_folders_validator(store, value)

\* the conversion a field applies: its converter, else the one of its kind
conversion_of(field) ==
  IF field.converter # "none" THEN field.converter
  ELSE CASE field.kind = "Boolean" -> "bool"
         [] field.kind = "Integer" -> "int"
         [] OTHER -> "identity"

convert(conv, value) ==
  CASE conv = "bool" -> bool(value)
    [] conv = "int" -> int(value)
    [] OTHER -> value

\* Field.patch(container, candidate): [ok, app].  fault = "setter" makes the
\* setter raise.  An exception of the validator, the conversion or the setter
\* rejects the leaf and leaves the store as it was.
patch(field, store, candidate, fault) ==
  LET valid == run_validator(field.validator, store, candidate)
      member == \E i \in 1..Len(field.enums) : py_eq(field.enums[i], candidate)
      value == IF field.kind = "Enum" /\ ~member THEN field.default_value ELSE candidate
      conv == conversion_of(field)
      conv_raises == conv = "int" /\ ~int_ok(value)
      stored == convert(conv, value)
      setter_raises == field.setter # "none" /\ fault = "setter"
      applied == IF field.setter = "theme_name_setter"
                 THEN theme_name_setter(store, field.attr, stored)
                 ELSE [store EXCEPT ![field.attr] = stored]
      processed == IF field.post_processor = "layout_schedule_post_processor"
                   THEN layout_schedule_post_processor(applied, stored)
                   ELSE applied
  IN IF ~valid \/ conv_raises \/ setter_raises
     THEN [ok |-> FALSE, app |-> store]
     ELSE [ok |-> TRUE, app |-> processed]

\* MetadataStructureField.patch(container, providers): the sub-tree passes or
\* fails as one unit; it passes when every entry configures a known provider
metadata_valid(store, providers) ==
  /\ providers.k = "dict"
  /\ \A i \in 1..Len(providers.d) :
       /\ providers.d[i].val.k = "dict"
       /\ Has(store.metadata_provider_dict.d, providers.d[i].key)

RECURSIVE metadata_apply(_, _)
metadata_apply(current, entries) ==
  IF entries = <<>> THEN current
  ELSE metadata_apply(Put(current, Head(entries).key, Head(entries).val), Tail(entries))

patch_metadata(store, providers) ==
  IF metadata_valid(store, providers)
  THEN [ok |-> TRUE,
        app |-> [store EXCEPT !.metadata_provider_dict =
                   D(metadata_apply(store.metadata_provider_dict.d, providers.d))]]
  ELSE [ok |-> FALSE, app |-> store]

-----------------------------------------------------------------------------
(* ConfigHandler.patches: the Field registry                               *)

\* src lines 73-74
patches_general ==
  <<
    <<"anonRedirect", StringField("ANON_REDIRECT")>>,
    <<"emby.enabled", BooleanField("USE_EMBY")>>
  >>

\* src lines 75-90
patches_torrents ==
  <<
    <<"torrents.authType", StringField("TORRENT_AUTH_TYPE")>>,
    <<"torrents.dir", StringField("TORRENT_DIR")>>,
    <<"torrents.enabled", BooleanField("USE_TORRENTS")>>,
    <<"torrents.highBandwidth", StringField("TORRENT_HIGH_BANDWIDTH")>>,
    <<"torrents.host", StringField("TORRENT_HOST")>>,
    <<"torrents.label", StringField("TORRENT_LABEL")>>,
    <<"torrents.labelAnime", StringField("TORRENT_LABEL_ANIME")>>,
    <<"torrents.method", StringField("TORRENT_METHOD")>>,
    <<"torrents.password", StringField("TORRENT_PASSWORD")>>,
    <<"torrents.path", BooleanField("TORRENT_PATH")>>,
    <<"torrents.paused", BooleanField("TORRENT_PAUSED")>>,
    <<"torrents.rpcurl", StringField("TORRENT_RPCURL")>>,
    <<"torrents.seedLocation", StringField("TORRENT_SEED_LOCATION")>>,
    <<"torrents.seedTime", StringField("TORRENT_SEED_TIME")>>,
    <<"torrents.username", StringField("TORRENT_USERNAME")>>,
    <<"torrents.verifySSL", BooleanField("TORRENT_VERIFY_CERT")>>
  >>

\* src lines 91-111
patches_nzb ==
  <<
    <<"nzb.enabled", BooleanField("USE_NZBS")>>,
    <<"nzb.dir", StringField("NZB_DIR")>>,
    <<"nzb.method", StringField("NZB_METHOD")>>,
    <<"nzb.nzbget.category", StringField("NZBGET_CATEGORY")>>,
    <<"nzb.nzbget.categoryAnime", StringField("NZBGET_CATEGORY_ANIME")>>,
    <<"nzb.nzbget.categoryAnimeBacklog", StringField("NZBGET_CATEGORY_ANIME_BACKLOG")>>,
    <<"nzb.nzbget.categoryBacklog", StringField("NZBGET_CATEGORY_BACKLOG")>>,
    <<"nzb.nzbget.host", StringField("NZBGET_HOST")>>,
    <<"nzb.nzbget.password", StringField("NZBGET_PASSWORD")>>,
    <<"nzb.nzbget.priority", StringField("NZBGET_PRIORITY")>>,
    <<"nzb.nzbget.useHttps", BooleanField("NZBGET_USE_HTTPS")>>,
    <<"nzb.nzbget.username", StringField("NZBGET_USERNAME")>>,
    <<"nzb.sabnzbd.apiKey", StringField("SAB_APIKEY")>>,
    <<"nzb.sabnzbd.category", StringField("SAB_CATEGORY")>>,
    <<"nzb.sabnzbd.categoryAnime", StringField("SAB_CATEGORY_ANIME")>>,
    <<"nzb.sabnzbd.categoryAnimeBacklog", StringField("SAB_CATEGORY_ANIME_BACKLOG")>>,
    <<"nzb.sabnzbd.categoryBacklog", StringField("SAB_CATEGORY_BACKLOG")>>,
    <<"nzb.sabnzbd.forced", BooleanField("SAB_FORCED")>>,
    <<"nzb.sabnzbd.host", StringField("SAB_HOST")>>,
    <<"nzb.sabnzbd.password", StringField("SAB_PASSWORD")>>,
    <<"nzb.sabnzbd.username", StringField("SAB_USERNAME")>>
  >>

\* the layout group with layout.schedule registered as a plain string
patches_layout_schedule_unchecked ==
  <<
    <<"selectedRootIndex", IntegerField("SELECTED_ROOT")>>,
    <<"layout.schedule", [StringField("COMING_EPS_LAYOUT") EXCEPT !.post_processor = "layout_schedule_post_processor"]>>,
    <<"layout.history", EnumField("HISTORY_LAYOUT", <<S("compact"), S("detailed")>>, S("detailed"))>>,
    <<"layout.home", EnumField("HOME_LAYOUT", <<S("poster"), S("small"), S("banner"), S("simple"), S("coverflow")>>, S("poster"))>>,
    <<"layout.show.allSeasons", BooleanField("DISPLAY_ALL_SEASONS")>>,
    <<"layout.show.specials", BooleanField("DISPLAY_SHOW_SPECIALS")>>,
    <<"layout.show.showListOrder", ListField("SHOW_LIST_ORDER")>>,
    <<"theme.name", [StringField("THEME_NAME") EXCEPT !.setter = "theme_name_setter"]>>,
    <<"backlogOverview.period", StringField("BACKLOG_PERIOD")>>,
    <<"backlogOverview.status", StringField("BACKLOG_STATUS")>>,
    <<"rootDirs", ListField("ROOT_DIRS")>>
  >>

\* src lines 112-124
patches_layout ==
  <<
    <<"selectedRootIndex", IntegerField("SELECTED_ROOT")>>,
    <<"layout.schedule", [EnumField("COMING_EPS_LAYOUT", <<S("poster"), S("banner"), S("list"), S("calendar")>>, S("banner")) EXCEPT !.post_processor = "layout_schedule_post_processor"]>>,
    <<"layout.history", EnumField("HISTORY_LAYOUT", <<S("compact"), S("detailed")>>, S("detailed"))>>,
    <<"layout.home", EnumField("HOME_LAYOUT", <<S("poster"), S("small"), S("banner"), S("simple"), S("coverflow")>>, S("poster"))>>,
    <<"layout.show.allSeasons", BooleanField("DISPLAY_ALL_SEASONS")>>,
    <<"layout.show.specials", BooleanField("DISPLAY_SHOW_SPECIALS")>>,
    <<"layout.show.showListOrder", ListField("SHOW_LIST_ORDER")>>,
    <<"theme.name", [StringField("THEME_NAME") EXCEPT !.setter = "theme_name_setter"]>>,
    <<"backlogOverview.period", StringField("BACKLOG_PERIOD")>>,
    <<"backlogOverview.status", StringField("BACKLOG_STATUS")>>,
    <<"rootDirs", ListField("ROOT_DIRS")>>
  >>

\* src lines 126-132
patches_showDefaults ==
  <<
    <<"showDefaults.status", [EnumField("STATUS_DEFAULT", <<SKIPPED, WANTED, IGNORED>>, None) EXCEPT !.converter = "int"]>>,
    <<"showDefaults.statusAfter", [EnumField("STATUS_DEFAULT_AFTER", <<SKIPPED, WANTED, IGNORED>>, None) EXCEPT !.converter = "int"]>>,
    <<"showDefaults.quality", [IntegerField("QUALITY_DEFAULT") EXCEPT !.validator = "is_valid_combined_quality"]>>,
    <<"showDefaults.subtitles", [BooleanField("SUBTITLES_DEFAULT") EXCEPT !.validator = "use_subtitles", !.converter = "bool"]>>,
    <<"showDefaults.seasonFolders", [BooleanField("SEASON_FOLDERS_DEFAULT") EXCEPT !.validator = "season_folders_validator", !.converter = "bool"]>>,
    <<"showDefaults.anime", [BooleanField("ANIME_DEFAULT") EXCEPT !.converter = "bool"]>>,
    <<"showDefaults.scene", [BooleanField("SCENE_DEFAULT") EXCEPT !.converter = "bool"]>>
  >>

\* src lines 134-165
patches_postProcessing ==
  <<
    <<"postProcessing.showDownloadDir", StringField("TV_DOWNLOAD_DIR")>>,
    <<"postProcessing.processAutomatically", BooleanField("PROCESS_AUTOMATICALLY")>>,
    <<"postProcessing.processMethod", StringField("PROCESS_METHOD")>>,
    <<"postProcessing.deleteRarContent", BooleanField("DELRARCONTENTS")>>,
    <<"postProcessing.unpack", BooleanField("UNPACK")>>,
    <<"postProcessing.noDelete", BooleanField("NO_DELETE")>>,
    <<"postProcessing.postponeIfSyncFiles", BooleanField("POSTPONE_IF_SYNC_FILES")>>,
    <<"postProcessing.autoPostprocessorFrequency", IntegerField("AUTOPOSTPROCESSOR_FREQUENCY")>>,
    <<"postProcessing.airdateEpisodes", BooleanField("AIRDATE_EPISODES")>>,
    <<"postProcessing.moveAssociatedFiles", BooleanField("MOVE_ASSOCIATED_FILES")>>,
    <<"postProcessing.allowedExtensions", ListField("ALLOWED_EXTENSIONS")>>,
    <<"postProcessing.addShowsWithoutDir", BooleanField("ADD_SHOWS_WO_DIR")>>,
    <<"postProcessing.createMissingShowDirs", BooleanField("CREATE_MISSING_SHOW_DIRS")>>,
    <<"postProcessing.renameEpisodes", BooleanField("RENAME_EPISODES")>>,
    <<"postProcessing.postponeIfNoSubs", BooleanField("POSTPONE_IF_NO_SUBS")>>,
    <<"postProcessing.nfoRename", BooleanField("NFO_RENAME")>>,
    <<"postProcessing.syncFiles", ListField("SYNC_FILES")>>,
    <<"postProcessing.fileTimestampTimezone", StringField("FILE_TIMESTAMP_TIMEZONE")>>,
    <<"postProcessing.extraScripts", ListField("EXTRA_SCRIPTS")>>,
    <<"postProcessing.extraScriptsUrl", StringField("EXTRA_SCRIPTS_URL")>>,
    <<"postProcessing.naming.pattern", StringField("NAMING_PATTERN")>>,
    <<"postProcessing.naming.enableCustomNamingAnime", BooleanField("NAMING_CUSTOM_ANIME")>>,
    <<"postProcessing.naming.enableCustomNamingSports", BooleanField("NAMING_CUSTOM_SPORTS")>>,
    <<"postProcessing.naming.enableCustomNamingAirByDate", BooleanField("NAMING_CUSTOM_ABD")>>,
    <<"postProcessing.naming.patternSports", StringField("NAMING_SPORTS_PATTERN")>>,
    <<"postProcessing.naming.patternAirByDate", StringField("NAMING_ABD_PATTERN")>>,
    <<"postProcessing.naming.patternAnime", StringField("NAMING_ANIME_PATTERN")>>,
    <<"postProcessing.naming.animeMultiEp", IntegerField("NAMING_ANIME_MULTI_EP")>>,
    <<"postProcessing.naming.animeNamingType", IntegerField("NAMING_ANIME")>>,
    <<"postProcessing.naming.multiEp", IntegerField("NAMING_MULTI_EP")>>,
    <<"postProcessing.naming.stripYear", BooleanField("NAMING_STRIP_YEAR")>>
  >>

\* src lines 167-193
patches_search ==
  <<
    <<"search.general.randomizeProviders", BooleanField("RANDOMIZE_PROVIDERS")>>,
    <<"search.general.downloadPropers", BooleanField("DOWNLOAD_PROPERS")>>,
    <<"search.general.checkPropersInterval", StringField("CHECK_PROPERS_INTERVAL")>>,
    <<"search.general.propersSearchDays", IntegerField("PROPERS_SEARCH_DAYS")>>,
    <<"search.general.backlogDays", IntegerField("BACKLOG_DAYS")>>,
    <<"search.general.backlogFrequency", IntegerField("BACKLOG_FREQUENCY")>>,
    <<"search.general.minBacklogFrequency", IntegerField("MIN_BACKLOG_FREQUENCY")>>,
    <<"search.general.dailySearchFrequency", IntegerField("DAILYSEARCH_FREQUENCY")>>,
    <<"search.general.minDailySearchFrequency", IntegerField("MIN_DAILYSEARCH_FREQUENCY")>>,
    <<"search.general.removeFromClient", BooleanField("REMOVE_FROM_CLIENT")>>,
    <<"search.general.torrentCheckerFrequency", IntegerField("TORRENT_CHECKER_FREQUENCY")>>,
    <<"search.general.minTorrentCheckerFrequency", IntegerField("MIN_TORRENT_CHECKER_FREQUENCY")>>,
    <<"search.general.usenetRetention", IntegerField("USENET_RETENTION")>>,
    <<"search.general.trackersList", ListField("TRACKERS_LIST")>>,
    <<"search.general.allowHighPriority", BooleanField("ALLOW_HIGH_PRIORITY")>>,
    <<"search.general.useFailedDownloads", BooleanField("USE_FAILED_DOWNLOADS")>>,
    <<"search.general.deleteFailed", BooleanField("DELETE_FAILED")>>,
    <<"search.general.cacheTrimming", BooleanField("CACHE_TRIMMING")>>,
    <<"search.general.maxCacheAge", IntegerField("MAX_CACHE_AGE")>>,
    <<"search.filters.ignored", ListField("IGNORE_WORDS")>>,
    <<"search.filters.undesired", ListField("UNDESIRED_WORDS")>>,
    <<"search.filters.preferred", ListField("PREFERRED_WORDS")>>,
    <<"search.filters.required", ListField("REQUIRE_WORDS")>>,
    <<"search.filters.ignoredSubsList", ListField("IGNORED_SUBS_LIST")>>,
    <<"search.filters.ignoreUnknownSubs", BooleanField("IGNORE_UND_SUBS")>>
  >>

\* src lines 195-207
patches_kodi ==
  <<
    <<"notifiers.kodi.enabled", BooleanField("USE_KODI")>>,
    <<"notifiers.kodi.alwaysOn", BooleanField("USE_KODI")>>,
    <<"notifiers.kodi.notifyOnSnatch", BooleanField("KODI_NOTIFY_ONSNATCH")>>,
    <<"notifiers.kodi.notifyOnDownload", BooleanField("KODI_NOTIFY_ONDOWNLOAD")>>,
    <<"notifiers.kodi.notifyOnSubtitleDownload", BooleanField("KODI_NOTIFY_ONSUBTITLEDOWNLOAD")>>,
    <<"notifiers.kodi.update.library", BooleanField("KODI_UPDATE_LIBRARY")>>,
    <<"notifiers.kodi.update.full", BooleanField("KODI_UPDATE_FULL")>>,
    <<"notifiers.kodi.update.onlyFirst", BooleanField("KODI_UPDATE_ONLYFIRST")>>,
    <<"notifiers.kodi.host", ListField("KODI_HOST")>>,
    <<"notifiers.kodi.username", StringField("KODI_USERNAME")>>,
    <<"notifiers.kodi.password", StringField("KODI_PASSWORD")>>,
    <<"notifiers.kodi.libraryCleanPending", BooleanField("KODI_LIBRARY_CLEAN_PENDING")>>,
    <<"notifiers.kodi.cleanLibrary", BooleanField("KODI_CLEAN_LIBRARY")>>
  >>

\* src lines 209-221
patches_plex ==
  <<
    <<"notifiers.plex.server.enabled", BooleanField("USE_PLEX_SERVER")>>,
    <<"notifiers.plex.server.updateLibrary", BooleanField("PLEX_UPDATE_LIBRARY")>>,
    <<"notifiers.plex.server.host", ListField("PLEX_SERVER_HOST")>>,
    <<"notifiers.plex.server.https", BooleanField("PLEX_SERVER_HTTPS")>>,
    <<"notifiers.plex.server.username", StringField("PLEX_SERVER_HOST")>>,
    <<"notifiers.plex.server.password", StringField("PLEX_SERVER_HOST")>>,
    <<"notifiers.plex.server.token", StringField("PLEX_SERVER_HOST")>>,
    <<"notifiers.plex.client.enabled", BooleanField("USE_PLEX_CLIENT")>>,
    <<"notifiers.plex.client.username", StringField("PLEX_CLIENT_USERNAME")>>,
    <<"notifiers.plex.client.host", ListField("PLEX_CLIENT_HOST")>>,
    <<"notifiers.plex.client.notifyOnSnatch", BooleanField("PLEX_NOTIFY_ONSNATCH")>>,
    <<"notifiers.plex.client.notifyOnDownload", BooleanField("PLEX_NOTIFY_ONDOWNLOAD")>>,
    <<"notifiers.plex.client.notifyOnSubtitleDownload", BooleanField("PLEX_NOTIFY_ONSUBTITLEDOWNLOAD")>>
  >>

\* src lines 223-225
patches_emby ==
  <<
    <<"notifiers.emby.enabled", BooleanField("USE_EMBY")>>,
    <<"notifiers.emby.host", StringField("EMBY_HOST")>>,
    <<"notifiers.emby.apiKey", StringField("EMBY_APIKEY")>>
  >>

\* src lines 227-267
patches_notifiers_a ==
  <<
    <<"notifiers.nmj.enabled", BooleanField("USE_NMJ")>>,
    <<"notifiers.nmj.host", StringField("NMJ_HOST")>>,
    <<"notifiers.nmj.database", StringField("NMJ_DATABASE")>>,
    <<"notifiers.nmj.mount", StringField("NMJ_MOUNT")>>,
    <<"notifiers.nmjv2.enabled", BooleanField("USE_NMJv2")>>,
    <<"notifiers.nmjv2.host", StringField("NMJv2_HOST")>>,
    <<"notifiers.nmjv2.dbloc", StringField("NMJv2_DBLOC")>>,
    <<"notifiers.nmjv2.database", StringField("NMJv2_DATABASE")>>,
    <<"notifiers.synologyIndex.enabled", BooleanField("USE_SYNOINDEX")>>,
    <<"notifiers.synology.enabled", BooleanField("USE_SYNOLOGYNOTIFIER")>>,
    <<"notifiers.synology.notifyOnSnatch", BooleanField("SYNOLOGYNOTIFIER_NOTIFY_ONSNATCH")>>,
    <<"notifiers.synology.notifyOnDownload", BooleanField("SYNOLOGYNOTIFIER_NOTIFY_ONDOWNLOAD")>>,
    <<"notifiers.synology.notifyOnSubtitleDownload", BooleanField("SYNOLOGYNOTIFIER_NOTIFY_ONSUBTITLEDOWNLOAD")>>,
    <<"notifiers.pyTivo.enabled", BooleanField("USE_PYTIVO")>>,
    <<"notifiers.pyTivo.host", StringField("PYTIVO_HOST")>>,
    <<"notifiers.pyTivo.name", StringField("PYTIVO_TIVO_NAME")>>,
    <<"notifiers.pyTivo.shareName", StringField("PYTIVO_SHARE_NAME")>>,
    <<"notifiers.growl.enabled", BooleanField("USE_GROWL")>>,
    <<"notifiers.growl.host", StringField("GROWL_HOST")>>,
    <<"notifiers.growl.password", StringField("GROWL_PASSWORD")>>,
    <<"notifiers.growl.notifyOnSnatch", BooleanField("GROWL_NOTIFY_ONSNATCH")>>,
    <<"notifiers.growl.notifyOnDownload", BooleanField("GROWL_NOTIFY_ONDOWNLOAD")>>,
    <<"notifiers.growl.notifyOnSubtitleDownload", BooleanField("GROWL_NOTIFY_ONSUBTITLEDOWNLOAD")>>,
    <<"notifiers.prowl.enabled", BooleanField("USE_PROWL")>>,
    <<"notifiers.prowl.api", ListField("PROWL_API")>>,
    <<"notifiers.prowl.messageTitle", StringField("PROWL_MESSAGE_TITLE")>>,
    <<"notifiers.prowl.priority", IntegerField("PROWL_PRIORITY")>>,
    <<"notifiers.prowl.notifyOnSnatch", BooleanField("PROWL_NOTIFY_ONSNATCH")>>,
    <<"notifiers.prowl.notifyOnDownload", BooleanField("PROWL_NOTIFY_ONDOWNLOAD")>>,
    <<"notifiers.prowl.notifyOnSubtitleDownload", BooleanField("PROWL_NOTIFY_ONSUBTITLEDOWNLOAD")>>,
    <<"notifiers.libnotify.enabled", BooleanField("USE_LIBNOTIFY")>>,
    <<"notifiers.libnotify.notifyOnSnatch", BooleanField("LIBNOTIFY_NOTIFY_ONSNATCH")>>,
    <<"notifiers.libnotify.notifyOnDownload", BooleanField("LIBNOTIFY_NOTIFY_ONDOWNLOAD")>>,
    <<"notifiers.libnotify.notifyOnSubtitleDownload", BooleanField("LIBNOTIFY_NOTIFY_ONSUBTITLEDOWNLOAD")>>
  >>

\* src lines 269-317
patches_notifiers_b ==
  <<
    <<"notifiers.pushover.enabled", BooleanField("USE_PUSHOVER")>>,
    <<"notifiers.pushover.apiKey", StringField("PUSHOVER_APIKEY")>>,
    <<"notifiers.pushover.userKey", StringField("PUSHOVER_USERKEY")>>,
    <<"notifiers.pushover.device", ListField("PUSHOVER_DEVICE")>>,
    <<"notifiers.pushover.sound", StringField("PUSHOVER_SOUND")>>,
    <<"notifiers.pushover.priority", IntegerField("PUSHOVER_PRIORITY")>>,
    <<"notifiers.pushover.notifyOnSnatch", BooleanField("PUSHOVER_NOTIFY_ONSNATCH")>>,
    <<"notifiers.pushover.notifyOnDownload", BooleanField("PUSHOVER_NOTIFY_ONDOWNLOAD")>>,
    <<"notifiers.pushover.notifyOnSubtitleDownload", BooleanField("PUSHOVER_NOTIFY_ONSUBTITLEDOWNLOAD")>>,
    <<"notifiers.boxcar2.enabled", BooleanField("USE_BOXCAR2")>>,
    <<"notifiers.boxcar2.accessToken", StringField("BOXCAR2_ACCESSTOKEN")>>,
    <<"notifiers.boxcar2.notifyOnSnatch", BooleanField("BOXCAR2_NOTIFY_ONSNATCH")>>,
    <<"notifiers.boxcar2.notifyOnDownload", BooleanField("BOXCAR2_NOTIFY_ONDOWNLOAD")>>,
    <<"notifiers.boxcar2.notifyOnSubtitleDownload", BooleanField("BOXCAR2_NOTIFY_ONSUBTITLEDOWNLOAD")>>,
    <<"notifiers.pushalot.enabled", BooleanField("USE_PUSHALOT")>>,
    <<"notifiers.pushalot.authToken", StringField("PUSHALOT_AUTHORIZATIONTOKEN")>>,
    <<"notifiers.pushalot.notifyOnSnatch", BooleanField("PUSHALOT_NOTIFY_ONSNATCH")>>,
    <<"notifiers.pushalot.notifyOnDownload", BooleanField("PUSHALOT_NOTIFY_ONDOWNLOAD")>>,
    <<"notifiers.pushalot.notifyOnSubtitleDownload", BooleanField("PUSHALOT_NOTIFY_ONSUBTITLEDOWNLOAD")>>,
    <<"notifiers.pushbullet.enabled", BooleanField("USE_PUSHBULLET")>>,
    <<"notifiers.pushbullet.api", StringField("PUSHBULLET_API")>>,
    <<"notifiers.pushbullet.device", StringField("PUSHBULLET_DEVICE")>>,
    <<"notifiers.pushbullet.notifyOnSnatch", BooleanField("PUSHBULLET_NOTIFY_ONSNATCH")>>,
    <<"notifiers.pushbullet.notifyOnDownload", BooleanField("PUSHBULLET_NOTIFY_ONDOWNLOAD")>>,
    <<"notifiers.pushbullet.notifyOnSubtitleDownload", BooleanField("PUSHBULLET_NOTIFY_ONSUBTITLEDOWNLOAD")>>,
    <<"notifiers.join.enabled", BooleanField("USE_JOIN")>>,
    <<"notifiers.join.api", StringField("JOIN_API")>>,
    <<"notifiers.join.device", StringField("JOIN_DEVICE")>>,
    <<"notifiers.join.notifyOnSnatch", BooleanField("JOIN_NOTIFY_ONSNATCH")>>,
    <<"notifiers.join.notifyOnDownload", BooleanField("JOIN_NOTIFY_ONDOWNLOAD")>>,
    <<"notifiers.join.notifyOnSubtitleDownload", BooleanField("JOIN_NOTIFY_ONSUBTITLEDOWNLOAD")>>,
    <<"notifiers.freemobile.enabled", BooleanField("USE_FREEMOBILE")>>,
    <<"notifiers.freemobile.api", StringField("FREEMOBILE_APIKEY")>>,
    <<"notifiers.freemobile.id", StringField("FREEMOBILE_ID")>>,
    <<"notifiers.freemobile.notifyOnSnatch", BooleanField("FREEMOBILE_NOTIFY_ONSNATCH")>>,
    <<"notifiers.freemobile.notifyOnDownload", BooleanField("FREEMOBILE_NOTIFY_ONDOWNLOAD")>>,
    <<"notifiers.freemobile.notifyOnSubtitleDownload", BooleanField("FREEMOBILE_NOTIFY_ONSUBTITLEDOWNLOAD")>>,
    <<"notifiers.telegram.enabled", BooleanField("USE_TELEGRAM")>>,
    <<"notifiers.telegram.api", StringField("TELEGRAM_APIKEY")>>,
    <<"notifiers.telegram.id", StringField("TELEGRAM_ID")>>,
    <<"notifiers.telegram.notifyOnSnatch", BooleanField("TELEGRAM_NOTIFY_ONSNATCH")>>,
    <<"notifiers.telegram.notifyOnDownload", BooleanField("TELEGRAM_NOTIFY_ONDOWNLOAD")>>,
    <<"notifiers.telegram.notifyOnSubtitleDownload", BooleanField("TELEGRAM_NOTIFY_ONSUBTITLEDOWNLOAD")>>
  >>

\* src lines 319-362
patches_notifiers_c ==
  <<
    <<"notifiers.twitter.enabled", BooleanField("USE_TWITTER")>>,
    <<"notifiers.twitter.dmto", StringField("TWITTER_DMTO")>>,
    <<"notifiers.twitter.username", StringField("TWITTER_USERNAME")>>,
    <<"notifiers.twitter.password", StringField("TWITTER_PASSWORD")>>,
    <<"notifiers.twitter.prefix", StringField("TWITTER_PREFIX")>>,
    <<"notifiers.twitter.directMessage", BooleanField("TWITTER_USEDM")>>,
    <<"notifiers.twitter.notifyOnSnatch", BooleanField("TWITTER_NOTIFY_ONSNATCH")>>,
    <<"notifiers.twitter.notifyOnDownload", BooleanField("TWITTER_NOTIFY_ONDOWNLOAD")>>,
    <<"notifiers.twitter.notifyOnSubtitleDownload", BooleanField("TWITTER_NOTIFY_ONSUBTITLEDOWNLOAD")>>,
    <<"notifiers.trakt.enabled", BooleanField("USE_TRAKT")>>,
    <<"notifiers.trakt.pinUrl", StringField("TRAKT_PIN_URL")>>,
    <<"notifiers.trakt.username", StringField("TRAKT_USERNAME")>>,
    <<"notifiers.trakt.accessToken", StringField("TRAKT_ACCESS_TOKEN")>>,
    <<"notifiers.trakt.timeout", IntegerField("TRAKT_TIMEOUT")>>,
    <<"notifiers.trakt.defaultIndexer", IntegerField("TRAKT_DEFAULT_INDEXER")>>,
    <<"notifiers.trakt.sync", BooleanField("TRAKT_SYNC")>>,
    <<"notifiers.trakt.syncRemove", BooleanField("TRAKT_SYNC_REMOVE")>>,
    <<"notifiers.trakt.syncWatchlist", BooleanField("TRAKT_SYNC_WATCHLIST")>>,
    <<"notifiers.trakt.methodAdd", IntegerField("TRAKT_METHOD_ADD")>>,
    <<"notifiers.trakt.removeWatchlist", BooleanField("TRAKT_REMOVE_WATCHLIST")>>,
    <<"notifiers.trakt.removeSerieslist", BooleanField("TRAKT_REMOVE_SERIESLIST")>>,
    <<"notifiers.trakt.removeShowFromApplication", BooleanField("TRAKT_REMOVE_SHOW_FROM_APPLICATION")>>,
    <<"notifiers.trakt.startPaused", BooleanField("TRAKT_START_PAUSED")>>,
    <<"notifiers.trakt.blacklistName", StringField("TRAKT_BLACKLIST_NAME")>>,
    <<"notifiers.email.enabled", BooleanField("USE_EMAIL")>>,
    <<"notifiers.email.host", StringField("EMAIL_HOST")>>,
    <<"notifiers.email.port", IntegerField("EMAIL_PORT")>>,
    <<"notifiers.email.from", StringField("EMAIL_FROM")>>,
    <<"notifiers.email.tls", BooleanField("EMAIL_TLS")>>,
    <<"notifiers.email.username", StringField("EMAIL_USER")>>,
    <<"notifiers.email.password", StringField("EMAIL_PASSWORD")>>,
    <<"notifiers.email.addressList", ListField("EMAIL_LIST")>>,
    <<"notifiers.email.subject", StringField("EMAIL_SUBJECT")>>,
    <<"notifiers.email.notifyOnSnatch", BooleanField("EMAIL_NOTIFY_ONSNATCH")>>,
    <<"notifiers.email.notifyOnDownload", BooleanField("EMAIL_NOTIFY_ONDOWNLOAD")>>,
    <<"notifiers.email.notifyOnSubtitleDownload", BooleanField("EMAIL_NOTIFY_ONSUBTITLEDOWNLOAD")>>,
    <<"notifiers.slack.enabled", BooleanField("USE_SLACK")>>,
    <<"notifiers.slack.webhook", StringField("SLACK_WEBHOOK")>>,
    <<"notifiers.slack.notifyOnSnatch", BooleanField("SLACK_NOTIFY_SNATCH")>>,
    <<"notifiers.slack.notifyOnDownload", BooleanField("SLACK_NOTIFY_DOWNLOAD")>>,
    <<"notifiers.slack.notifyOnSubtitleDownload", BooleanField("SLACK_NOTIFY_SUBTITLEDOWNLOAD")>>
  >>

patches_entries ==
  patches_general
  \o patches_torrents
  \o patches_nzb
  \o patches_layout
  \o patches_showDefaults
  \o patches_postProcessing
  \o patches_search
  \o patches_kodi
  \o patches_plex
  \o patches_emby
  \o patches_notifiers_a
  \o patches_notifiers_b
  \o patches_notifiers_c

\* the table with an entry for the inner node torrents as well
patches_with_inner_node ==
  [p \in {patches_entries[i][1] : i \in 1..Len(patches_entries)} \cup {"torrents"} |->
     IF p = "torrents" THEN patches_entries[1][2]
     ELSE LET last == CHOOSE i \in 1..Len(patches_entries) :
                        /\ patches_entries[i][1] = p
                        /\ \A j \in 1..Len(patches_entries) : patches_entries[j][1] = p => j <= i
          IN patches_entries[last][2]]

\* the table with every Integer Field taken as a String Field
patches_integer_as_string ==
  [p \in {patches_entries[i][1] : i \in 1..Len(patches_entries)} |->
     LET last == CHOOSE i \in 1..Len(patches_entries) :
                   /\ patches_entries[i][1] = p
                   /\ \A j \in 1..Len(patches_entries) : patches_entries[j][1] = p => j <= i
         field == patches_entries[last][2]
     IN IF field.kind = "Integer" THEN [field EXCEPT !.kind = "String"] ELSE field]

\* the dict literal: one Field per dotted path (a repeated key would keep its last Field)
patches ==
  [p \in {patches_entries[i][1] : i \in 1..Len(patches_entries)} |->
     LET last == CHOOSE i \in 1..Len(patches_entries) :
                   /\ patches_entries[i][1] = p
                   /\ \A j \in 1..Len(patches_entries) : patches_entries[j][1] = p => j <= i
     IN patches_entries[last][2]]

-----------------------------------------------------------------------------
(* DataGenerator: the section producers                                    *)

data_main(store) ==
  NonEmptyDict(<<
    E("anonRedirect", store.ANON_REDIRECT),
    E("animeSplitHome", bool(store.ANIME_SPLIT_HOME)),
    E("animeSplitHomeInTabs", bool(store.ANIME_SPLIT_HOME_IN_TABS)),
    E("comingEpsSort", store.COMING_EPS_SORT),
    E("comingEpsDisplayPaused", bool(store.COMING_EPS_DISPLAY_PAUSED)),
    E("datePreset", store.DATE_PRESET),
    E("fuzzyDating", bool(store.FUZZY_DATING)),
    E("themeName", store.THEME_NAME),
    E("posterSortby", store.POSTER_SORTBY),
    E("posterSortdir", store.POSTER_SORTDIR),
    E("rootDirs", store.ROOT_DIRS),
    E("sortArticle", bool(store.SORT_ARTICLE)),
    E("timePreset", store.TIME_PRESET),
    E("trimZero", bool(store.TRIM_ZERO)),
    E("fanartBackground", bool(store.FANART_BACKGROUND)),
    E("fanartBackgroundOpacity", IF truthy(store.FANART_BACKGROUND_OPACITY) THEN store.FANART_BACKGROUND_OPACITY ELSE I(0)),
    E("gitUsername", store.GIT_USERNAME),
    E("branch", store.BRANCH),
    E("commitHash", store.CUR_COMMIT_HASH),
    E("release", store.APP_VERSION),
    E("sslVersion", store.OPENSSL_VERSION),
    E("pythonVersion", External("sys.version")),
    E("databaseVersion", NonEmptyDict(<<
      E("major", store.MAJOR_DB_VERSION),
      E("minor", store.MINOR_DB_VERSION)
    >>)),
    E("os", External("platform.platform()")),
    E("pid", store.PID),
    E("locale", External("'.'.join([text_type(loc or 'Unknown') for loc in store.LOCALE])")),
    E("localUser", IF truthy(store.OS_USER) THEN store.OS_USER ELSE S("Unknown")),
    E("programDir", store.PROG_DIR),
    E("dataDir", store.DATA_DIR),
    E("configFile", store.CONFIG_FILE),
    E("dbPath", External("db.DBConnection().path")),
    E("cacheDir", store.CACHE_DIR),
    E("logDir", store.LOG_DIR),
    E("appArgs", store.MY_ARGS),
    E("webRoot", store.WEB_ROOT),
    E("runsInDocker", bool(store.RUNS_IN_DOCKER)),
    E("githubUrl", store.GITHUB_IO_URL),
    E("wikiUrl", store.WIKI_URL),
    E("donationsUrl", store.DONATIONS_URL),
    E("sourceUrl", store.APPLICATION_URL),
    E("downloadUrl", store.DOWNLOAD_URL),
    E("subtitlesMulti", bool(store.SUBTITLES_MULTI)),
    E("namingForceFolders", bool(store.NAMING_FORCE_FOLDERS)),
    E("subtitles", NonEmptyDict(<<
      E("enabled", bool(store.USE_SUBTITLES))
    >>)),
    E("recentShows", store.SHOWS_RECENT),
    E("showDefaults", D(<<
      E("status", store.STATUS_DEFAULT),
      E("statusAfter", store.STATUS_DEFAULT_AFTER),
      E("quality", store.QUALITY_DEFAULT),
      E("subtitles", bool(store.SUBTITLES_DEFAULT)),
      E("seasonFolders", bool(store.SEASON_FOLDERS_DEFAULT)),
      E("anime", bool(store.ANIME_DEFAULT)),
      E("scene", bool(store.SCENE_DEFAULT))
    >>)),
    E("news", NonEmptyDict(<<
      E("lastRead", store.NEWS_LAST_READ),
      E("latest", store.NEWS_LATEST),
      E("unread", store.NEWS_UNREAD)
    >>)),
    E("logs", NonEmptyDict(<<
      E("loggingLevels", External("{k.lower(): v for k, v in iteritems(logger.LOGGING_LEVELS)}")),
      E("numErrors", External("len(classes.ErrorViewer.errors)")),
      E("numWarnings", External("len(classes.WarningViewer.errors)"))
    >>)),
    E("failedDownloads", NonEmptyDict(<<
      E("enabled", bool(store.USE_FAILED_DOWNLOADS)),
      E("deleteFailed", bool(store.DELETE_FAILED))
    >>)),
    E("torrents", NonEmptyDict(<<
      E("authType", store.TORRENT_AUTH_TYPE),
      E("dir", store.TORRENT_DIR),
      E("enabled", bool(store.USE_TORRENTS)),
      E("highBandwidth", store.TORRENT_HIGH_BANDWIDTH),
      E("host", store.TORRENT_HOST),
      E("label", store.TORRENT_LABEL),
      E("labelAnime", store.TORRENT_LABEL_ANIME),
      E("method", store.TORRENT_METHOD),
      E("path", store.TORRENT_PATH),
      E("paused", bool(store.TORRENT_PAUSED)),
      E("rpcurl", store.TORRENT_RPCURL),
      E("seedLocation", store.TORRENT_SEED_LOCATION),
      E("seedTime", store.TORRENT_SEED_TIME),
      E("username", store.TORRENT_USERNAME),
      E("verifySSL", bool(store.TORRENT_VERIFY_CERT))
    >>)),
    E("nzb", NonEmptyDict(<<
      E("enabled", bool(store.USE_NZBS)),
      E("dir", store.NZB_DIR),
      E("method", store.NZB_METHOD),
      E("nzbget", NonEmptyDict(<<
        E("category", store.NZBGET_CATEGORY),
        E("categoryAnime", store.NZBGET_CATEGORY_ANIME),
        E("categoryAnimeBacklog", store.NZBGET_CATEGORY_ANIME_BACKLOG),
        E("categoryBacklog", store.NZBGET_CATEGORY_BACKLOG),
        E("host", store.NZBGET_HOST),
        E("priority", store.NZBGET_PRIORITY),
        E("useHttps", bool(store.NZBGET_USE_HTTPS)),
        E("username", store.NZBGET_USERNAME)
      >>)),
      E("sabnzbd", NonEmptyDict(<<
        E("category", store.SAB_CATEGORY),
        E("categoryAnime", store.SAB_CATEGORY_ANIME),
        E("categoryAnimeBacklog", store.SAB_CATEGORY_ANIME_BACKLOG),
        E("categoryBacklog", store.SAB_CATEGORY_BACKLOG),
        E("forced", bool(store.SAB_FORCED)),
        E("host", store.SAB_HOST),
        E("username", store.SAB_USERNAME)
      >>))
    >>)),
    E("layout", NonEmptyDict(<<
      E("schedule", store.COMING_EPS_LAYOUT),
      E("history", store.HISTORY_LAYOUT),
      E("home", store.HOME_LAYOUT),
      E("show", NonEmptyDict(<<
        E("allSeasons", bool(store.DISPLAY_ALL_SEASONS)),
        E("specials", bool(store.DISPLAY_SHOW_SPECIALS)),
        E("showListOrder", store.SHOW_LIST_ORDER)
      >>))
    >>)),
    E("selectedRootIndex", IF store.SELECTED_ROOT # None THEN int(store.SELECTED_ROOT) ELSE I(-1)),
    E("backlogOverview", NonEmptyDict(<<
      E("period", store.BACKLOG_PERIOD),
      E("status", store.BACKLOG_STATUS)
    >>)),
    E("indexers", NonEmptyDict(<<
      E("config", External("get_indexer_config()"))
    >>)),
    E("postProcessing", NonEmptyDict(<<
      E("naming", NonEmptyDict(<<
        E("pattern", store.NAMING_PATTERN),
        E("multiEp", int(store.NAMING_MULTI_EP)),
        E("patternAirByDate", store.NAMING_ABD_PATTERN),
        E("patternSports", store.NAMING_SPORTS_PATTERN),
        E("patternAnime", store.NAMING_ANIME_PATTERN),
        E("enableCustomNamingAirByDate", bool(store.NAMING_CUSTOM_ABD)),
        E("enableCustomNamingSports", bool(store.NAMING_CUSTOM_SPORTS)),
        E("enableCustomNamingAnime", bool(store.NAMING_CUSTOM_ANIME)),
        E("animeMultiEp", int(store.NAMING_ANIME_MULTI_EP)),
        E("animeNamingType", int(store.NAMING_ANIME)),
        E("stripYear", bool(store.NAMING_STRIP_YEAR))
      >>)),
      E("showDownloadDir", store.TV_DOWNLOAD_DIR),
      E("processAutomatically", bool(store.PROCESS_AUTOMATICALLY)),
      E("postponeIfSyncFiles", bool(store.POSTPONE_IF_SYNC_FILES)),
      E("postponeIfNoSubs", bool(store.POSTPONE_IF_NO_SUBS)),
      E("renameEpisodes", bool(store.RENAME_EPISODES)),
      E("createMissingShowDirs", bool(store.CREATE_MISSING_SHOW_DIRS)),
      E("addShowsWithoutDir", bool(store.ADD_SHOWS_WO_DIR)),
      E("moveAssociatedFiles", bool(store.MOVE_ASSOCIATED_FILES)),
      E("nfoRename", bool(store.NFO_RENAME)),
      E("airdateEpisodes", bool(store.AIRDATE_EPISODES)),
      E("unpack", bool(store.UNPACK)),
      E("deleteRarContent", bool(store.DELRARCONTENTS)),
      E("noDelete", bool(store.NO_DELETE)),
      E("processMethod", store.PROCESS_METHOD),
      E("reflinkAvailable", External("bool(pkgutil.find_loader('reflink'))")),
      E("autoPostprocessorFrequency", int(store.AUTOPOSTPROCESSOR_FREQUENCY)),
      E("syncFiles", store.SYNC_FILES),
      E("fileTimestampTimezone", store.FILE_TIMESTAMP_TIMEZONE),
      E("allowedExtensions", store.ALLOWED_EXTENSIONS),
      E("extraScripts", store.EXTRA_SCRIPTS),
      E("extraScriptsUrl", store.EXTRA_SCRIPTS_URL),
      E("multiEpStrings", External("common.MULTI_EP_STRINGS"))
    >>))
  >>)

data_qualities(store) ==
  NonEmptyDict(<<
    E("values", NonEmptyDict(<<
      E("na", External("common.Quality.NA")),
      E("unknown", External("common.Quality.UNKNOWN")),
      E("sdtv", External("common.Quality.SDTV")),
      E("sddvd", External("common.Quality.SDDVD")),
      E("hdtv", External("common.Quality.HDTV")),
      E("rawhdtv", External("common.Quality.RAWHDTV")),
      E("fullhdtv", External("common.Quality.FULLHDTV")),
      E("hdwebdl", External("common.Quality.HDWEBDL")),
      E("fullhdwebdl", External("common.Quality.FULLHDWEBDL")),
      E("hdbluray", External("common.Quality.HDBLURAY")),
      E("fullhdbluray", External("common.Quality.FULLHDBLURAY")),
      E("uhd4ktv", External("common.Quality.UHD_4K_TV")),
      E("uhd4kwebdl", External("common.Quality.UHD_4K_WEBDL")),
      E("uhd4kbluray", External("common.Quality.UHD_4K_BLURAY")),
      E("uhd8ktv", External("common.Quality.UHD_8K_TV")),
      E("uhd8kwebdl", External("common.Quality.UHD_8K_WEBDL")),
      E("uhd8kbluray", External("common.Quality.UHD_8K_BLURAY"))
    >>)),
    E("anySets", NonEmptyDict(<<
      E("anyhdtv", External("common.Quality.ANYHDTV")),
      E("anywebdl", External("common.Quality.ANYWEBDL")),
      E("anybluray", External("common.Quality.ANYBLURAY"))
    >>)),
    E("presets", NonEmptyDict(<<
      E("any", External("common.ANY")),
      E("sd", External("common.SD")),
      E("hd", External("common.HD")),
      E("hd720p", External("common.HD720p")),
      E("hd1080p", External("common.HD1080p")),
      E("uhd", External("common.UHD")),
      E("uhd4k", External("common.UHD_4K")),
      E("uhd8k", External("common.UHD_8K"))
    >>)),
    E("strings", NonEmptyDict(<<
      E("values", External("common.Quality.qualityStrings")),
      E("anySets", External("common.Quality.combinedQualityStrings")),
      E("presets", External("common.qualityPresetStrings")),
      E("cssClass", External("common.Quality.cssClassStrings"))
    >>))
  >>)

data_statuses(store) ==
  NonEmptyDict(<<
    E("values", NonEmptyDict(<<
      E("unset", External("common.UNSET")),
      E("unaired", External("common.UNAIRED")),
      E("snatched", External("common.SNATCHED")),
      E("wanted", External("common.WANTED")),
      E("downloaded", External("common.DOWNLOADED")),
      E("skipped", External("common.SKIPPED")),
      E("archived", External("common.ARCHIVED")),
      E("ignored", External("common.IGNORED")),
      E("snatchedProper", External("common.SNATCHED_PROPER")),
      E("subtitled", External("common.SUBTITLED")),
      E("failed", External("common.FAILED")),
      E("snatchedBest", External("common.SNATCHED_BEST"))
    >>)),
    E("strings", External("common.statusStrings"))
  >>)

data_search(store) ==
  NonEmptyDict(<<
    E("general", NonEmptyDict(<<
      E("randomizeProviders", bool(store.RANDOMIZE_PROVIDERS)),
      E("downloadPropers", bool(store.DOWNLOAD_PROPERS)),
      E("checkPropersInterval", store.CHECK_PROPERS_INTERVAL),
      E("propersSearchDays", int(store.PROPERS_SEARCH_DAYS)),
      E("backlogDays", int(store.BACKLOG_DAYS)),
      E("backlogFrequency", int(store.BACKLOG_FREQUENCY)),
      E("minBacklogFrequency", int(store.MIN_BACKLOG_FREQUENCY)),
      E("dailySearchFrequency", int(store.DAILYSEARCH_FREQUENCY)),
      E("minDailySearchFrequency", int(store.MIN_DAILYSEARCH_FREQUENCY)),
      E("removeFromClient", bool(store.REMOVE_FROM_CLIENT)),
      E("torrentCheckerFrequency", int(store.TORRENT_CHECKER_FREQUENCY)),
      E("minTorrentCheckerFrequency", int(store.MIN_TORRENT_CHECKER_FREQUENCY)),
      E("usenetRetention", int(store.USENET_RETENTION)),
      E("trackersList", store.TRACKERS_LIST),
      E("allowHighPriority", bool(store.ALLOW_HIGH_PRIORITY)),
      E("useFailedDownloads", bool(store.USE_FAILED_DOWNLOADS)),
      E("deleteFailed", bool(store.DELETE_FAILED)),
      E("cacheTrimming", bool(store.CACHE_TRIMMING)),
      E("maxCacheAge", int(store.MAX_CACHE_AGE))
    >>)),
    E("filters", NonEmptyDict(<<
      E("ignored", store.IGNORE_WORDS),
      E("undesired", store.UNDESIRED_WORDS),
      E("preferred", store.PREFERRED_WORDS),
      E("required", store.REQUIRE_WORDS),
      E("ignoredSubsList", store.IGNORED_SUBS_LIST),
      E("ignoreUnknownSubs", bool(store.IGNORE_UND_SUBS))
    >>))
  >>)

data_notifiers(store) ==
  NonEmptyDict(<<
    E("kodi", NonEmptyDict(<<
      E("enabled", bool(store.USE_KODI)),
      E("alwaysOn", bool(store.KODI_ALWAYS_ON)),
      E("notifyOnSnatch", bool(store.KODI_NOTIFY_ONSNATCH)),
      E("notifyOnDownload", bool(store.KODI_NOTIFY_ONDOWNLOAD)),
      E("notifyOnSubtitleDownload", bool(store.KODI_NOTIFY_ONSUBTITLEDOWNLOAD)),
      E("update", NonEmptyDict(<<
        E("library", bool(store.KODI_UPDATE_LIBRARY)),
        E("full", bool(store.KODI_UPDATE_FULL)),
        E("onlyFirst", bool(store.KODI_UPDATE_ONLYFIRST))
      >>)),
      E("host", store.KODI_HOST),
      E("username", store.KODI_USERNAME),
      E("password", store.KODI_PASSWORD),
      E("libraryCleanPending", bool(store.KODI_LIBRARY_CLEAN_PENDING)),
      E("cleanLibrary", bool(store.KODI_CLEAN_LIBRARY))
    >>)),
    E("plex", NonEmptyDict(<<
      E("server", NonEmptyDict(<<
        E("enabled", bool(store.USE_PLEX_SERVER)),
        E("updateLibrary", bool(store.PLEX_UPDATE_LIBRARY)),
        E("host", store.PLEX_SERVER_HOST),
        E("https", bool(store.PLEX_SERVER_HTTPS)),
        E("username", store.PLEX_SERVER_USERNAME),
        E("password", store.PLEX_SERVER_PASSWORD),
        E("token", store.PLEX_SERVER_TOKEN)
      >>)),
      E("client", NonEmptyDict(<<
        E("enabled", bool(store.USE_PLEX_CLIENT)),
        E("username", store.PLEX_CLIENT_USERNAME),
        E("host", store.PLEX_CLIENT_HOST),
        E("notifyOnSnatch", bool(store.PLEX_NOTIFY_ONSNATCH)),
        E("notifyOnDownload", bool(store.PLEX_NOTIFY_ONDOWNLOAD)),
        E("notifyOnSubtitleDownload", bool(store.PLEX_NOTIFY_ONSUBTITLEDOWNLOAD))
      >>))
    >>)),
    E("emby", NonEmptyDict(<<
      E("enabled", bool(store.USE_EMBY)),
      E("host", store.EMBY_HOST),
      E("apiKey", store.EMBY_APIKEY)
    >>)),
    E("nmj", NonEmptyDict(<<
      E("enabled", bool(store.USE_NMJ)),
      E("host", store.NMJ_HOST),
      E("database", store.NMJ_DATABASE),
      E("mount", store.NMJ_MOUNT)
    >>)),
    E("nmjv2", NonEmptyDict(<<
      E("enabled", bool(store.USE_NMJv2)),
      E("host", store.NMJv2_HOST),
      E("dbloc", store.NMJv2_DBLOC),
      E("database", store.NMJv2_DATABASE)
    >>)),
    E("synologyIndex", NonEmptyDict(<<
      E("enabled", bool(store.USE_SYNOINDEX))
    >>)),
    E("synology", NonEmptyDict(<<
      E("enabled", bool(store.USE_SYNOLOGYNOTIFIER)),
      E("notifyOnSnatch", bool(store.SYNOLOGYNOTIFIER_NOTIFY_ONSNATCH)),
      E("notifyOnDownload", bool(store.SYNOLOGYNOTIFIER_NOTIFY_ONDOWNLOAD)),
      E("notifyOnSubtitleDownload", bool(store.SYNOLOGYNOTIFIER_NOTIFY_ONSUBTITLEDOWNLOAD))
    >>)),
    E("pyTivo", NonEmptyDict(<<
      E("enabled", bool(store.USE_PYTIVO)),
      E("host", store.PYTIVO_HOST),
      E("name", store.PYTIVO_TIVO_NAME),
      E("shareName", store.PYTIVO_SHARE_NAME)
    >>)),
    E("growl", NonEmptyDict(<<
      E("enabled", bool(store.USE_GROWL)),
      E("host", store.GROWL_HOST),
      E("password", store.GROWL_PASSWORD),
      E("notifyOnSnatch", bool(store.GROWL_NOTIFY_ONSNATCH)),
      E("notifyOnDownload", bool(store.GROWL_NOTIFY_ONDOWNLOAD)),
      E("notifyOnSubtitleDownload", bool(store.GROWL_NOTIFY_ONSUBTITLEDOWNLOAD))
    >>)),
    E("prowl", NonEmptyDict(<<
      E("enabled", bool(store.USE_PROWL)),
      E("api", store.PROWL_API),
      E("messageTitle", store.PROWL_MESSAGE_TITLE),
      E("priority", int(store.PROWL_PRIORITY)),
      E("notifyOnSnatch", bool(store.PROWL_NOTIFY_ONSNATCH)),
      E("notifyOnDownload", bool(store.PROWL_NOTIFY_ONDOWNLOAD)),
      E("notifyOnSubtitleDownload", bool(store.PROWL_NOTIFY_ONSUBTITLEDOWNLOAD))
    >>)),
    E("libnotify", NonEmptyDict(<<
      E("enabled", bool(store.USE_LIBNOTIFY)),
      E("notifyOnSnatch", bool(store.LIBNOTIFY_NOTIFY_ONSNATCH)),
      E("notifyOnDownload", bool(store.LIBNOTIFY_NOTIFY_ONDOWNLOAD)),
      E("notifyOnSubtitleDownload", bool(store.LIBNOTIFY_NOTIFY_ONSUBTITLEDOWNLOAD))
    >>)),
    E("pushover", NonEmptyDict(<<
      E("enabled", bool(store.USE_PUSHOVER)),
      E("apiKey", store.PUSHOVER_APIKEY),
      E("userKey", store.PUSHOVER_USERKEY),
      E("device", store.PUSHOVER_DEVICE),
      E("sound", store.PUSHOVER_SOUND),
      E("priority", int(store.PUSHOVER_PRIORITY)),
      E("notifyOnSnatch", bool(store.PUSHOVER_NOTIFY_ONSNATCH)),
      E("notifyOnDownload", bool(store.PUSHOVER_NOTIFY_ONDOWNLOAD)),
      E("notifyOnSubtitleDownload", bool(store.PUSHOVER_NOTIFY_ONSUBTITLEDOWNLOAD))
    >>)),
    E("boxcar2", NonEmptyDict(<<
      E("enabled", bool(store.USE_BOXCAR2)),
      E("notifyOnSnatch", bool(store.BOXCAR2_NOTIFY_ONSNATCH)),
      E("notifyOnDownload", bool(store.BOXCAR2_NOTIFY_ONDOWNLOAD)),
      E("notifyOnSubtitleDownload", bool(store.BOXCAR2_NOTIFY_ONSUBTITLEDOWNLOAD)),
      E("accessToken", store.BOXCAR2_ACCESSTOKEN)
    >>)),
    E("pushalot", NonEmptyDict(<<
      E("enabled", bool(store.USE_PUSHALOT)),
      E("notifyOnSnatch", bool(store.PUSHALOT_NOTIFY_ONSNATCH)),
      E("notifyOnDownload", bool(store.PUSHALOT_NOTIFY_ONDOWNLOAD)),
      E("notifyOnSubtitleDownload", bool(store.PUSHALOT_NOTIFY_ONSUBTITLEDOWNLOAD)),
      E("authToken", store.PUSHALOT_AUTHORIZATIONTOKEN)
    >>)),
    E("pushbullet", NonEmptyDict(<<
      E("enabled", bool(store.USE_PUSHBULLET)),
      E("notifyOnSnatch", bool(store.PUSHBULLET_NOTIFY_ONSNATCH)),
      E("notifyOnDownload", bool(store.PUSHBULLET_NOTIFY_ONDOWNLOAD)),
      E("notifyOnSubtitleDownload", bool(store.PUSHBULLET_NOTIFY_ONSUBTITLEDOWNLOAD)),
      E("api", store.PUSHBULLET_API),
      E("device", store.PUSHBULLET_DEVICE)
    >>)),
    E("join", NonEmptyDict(<<
      E("enabled", bool(store.USE_JOIN)),
      E("notifyOnSnatch", bool(store.JOIN_NOTIFY_ONSNATCH)),
      E("notifyOnDownload", bool(store.JOIN_NOTIFY_ONDOWNLOAD)),
      E("notifyOnSubtitleDownload", bool(store.JOIN_NOTIFY_ONSUBTITLEDOWNLOAD)),
      E("api", store.JOIN_API),
      E("device", store.JOIN_DEVICE)
    >>)),
    E("freemobile", NonEmptyDict(<<
      E("enabled", bool(store.USE_FREEMOBILE)),
      E("notifyOnSnatch", bool(store.FREEMOBILE_NOTIFY_ONSNATCH)),
      E("notifyOnDownload", bool(store.FREEMOBILE_NOTIFY_ONDOWNLOAD)),
      E("notifyOnSubtitleDownload", bool(store.FREEMOBILE_NOTIFY_ONSUBTITLEDOWNLOAD)),
      E("api", store.FREEMOBILE_APIKEY),
      E("id", store.FREEMOBILE_ID)
    >>)),
    E("telegram", NonEmptyDict(<<
      E("enabled", bool(store.USE_TELEGRAM)),
      E("notifyOnSnatch", bool(store.TELEGRAM_NOTIFY_ONSNATCH)),
      E("notifyOnDownload", bool(store.TELEGRAM_NOTIFY_ONDOWNLOAD)),
      E("notifyOnSubtitleDownload", bool(store.TELEGRAM_NOTIFY_ONSUBTITLEDOWNLOAD)),
      E("api", store.TELEGRAM_APIKEY),
      E("id", store.TELEGRAM_ID)
    >>)),
    E("twitter", NonEmptyDict(<<
      E("enabled", bool(store.USE_TWITTER)),
      E("notifyOnSnatch", bool(store.TWITTER_NOTIFY_ONSNATCH)),
      E("notifyOnDownload", bool(store.TWITTER_NOTIFY_ONDOWNLOAD)),
      E("notifyOnSubtitleDownload", bool(store.TWITTER_NOTIFY_ONSUBTITLEDOWNLOAD)),
      E("dmto", store.TWITTER_DMTO),
      E("username", store.TWITTER_USERNAME),
      E("password", store.TWITTER_PASSWORD),
      E("prefix", store.TWITTER_PREFIX),
      E("directMessage", bool(store.TWITTER_USEDM))
    >>)),
    E("trakt", NonEmptyDict(<<
      E("enabled", bool(store.USE_TRAKT)),
      E("pinUrl", store.TRAKT_PIN_URL),
      E("username", store.TRAKT_USERNAME),
      E("accessToken", store.TRAKT_ACCESS_TOKEN),
      E("timeout", int(store.TRAKT_TIMEOUT)),
      E("defaultIndexer", int(store.TRAKT_DEFAULT_INDEXER)),
      E("sync", bool(store.TRAKT_SYNC)),
      E("syncRemove", bool(store.TRAKT_SYNC_REMOVE)),
      E("syncWatchlist", bool(store.TRAKT_SYNC_WATCHLIST)),
      E("methodAdd", int(store.TRAKT_METHOD_ADD)),
      E("removeWatchlist", bool(store.TRAKT_REMOVE_WATCHLIST)),
      E("removeSerieslist", bool(store.TRAKT_REMOVE_SERIESLIST)),
      E("removeShowFromApplication", bool(store.TRAKT_REMOVE_SHOW_FROM_APPLICATION)),
      E("startPaused", bool(store.TRAKT_START_PAUSED)),
      E("blacklistName", store.TRAKT_BLACKLIST_NAME)
    >>)),
    E("email", NonEmptyDict(<<
      E("enabled", bool(store.USE_EMAIL)),
      E("notifyOnSnatch", bool(store.EMAIL_NOTIFY_ONSNATCH)),
      E("notifyOnDownload", bool(store.EMAIL_NOTIFY_ONDOWNLOAD)),
      E("notifyOnSubtitleDownload", bool(store.EMAIL_NOTIFY_ONSUBTITLEDOWNLOAD)),
      E("host", store.EMAIL_HOST),
      E("port", store.EMAIL_PORT),
      E("from", store.EMAIL_FROM),
      E("tls", bool(store.EMAIL_TLS)),
      E("username", store.EMAIL_USER),
      E("password", store.EMAIL_PASSWORD),
      E("addressList", store.EMAIL_LIST),
      E("subject", store.EMAIL_SUBJECT)
    >>)),
    E("slack", NonEmptyDict(<<
      E("enabled", bool(store.USE_SLACK)),
      E("notifyOnSnatch", bool(store.SLACK_NOTIFY_SNATCH)),
      E("notifyOnDownload", bool(store.SLACK_NOTIFY_DOWNLOAD)),
      E("notifyOnSubtitleDownload", bool(store.SLACK_NOTIFY_SUBTITLEDOWNLOAD)),
      E("webhook", store.SLACK_WEBHOOK)
    >>))
  >>)

\* DataGenerator.data_metadata
data_metadata(store) ==
  NonEmptyDict(<<
    E("metadataProviders", NonEmptyDict(store.metadata_provider_dict.d))
  >>)

\* the list of sections with data_statuses not found by the name filter
sections_statuses_missing == <<"main", "metadata", "notifiers", "qualities", "search">>

\* DataGenerator.sections(): the data_* members, in inspect.getmembers' name order
sections == <<"main", "metadata", "notifiers", "qualities", "search", "statuses">>

is_section(name) == \E i \in 1..Len(sections) : sections[i] = name

\* DataGenerator.get_data(section)
get_data(section, store) ==
  CASE section = "main" -> data_main(store)
    [] section = "metadata" -> data_metadata(store)
    [] section = "notifiers" -> data_notifiers(store)
    [] section = "qualities" -> data_qualities(store)
    [] section = "search" -> data_search(store)
    [] section = "statuses" -> data_statuses(store)

-----------------------------------------------------------------------------
(* Responses of BaseRequestHandler                                         *)

ok_response(data) == [status |-> 200, data |-> data]
bad_request(message) == [status |-> 400, data |-> S(message)]
not_found(message) == [status |-> 404, data |-> S(message)]
\* an exception that leaves the handler
server_error == [status |-> 500, data |-> None]

-----------------------------------------------------------------------------
(* ConfigHandler.http_get                                                  *)

RECURSIVE full_snapshot(_, _)
full_snapshot(names, store) ==
  IF names = <<>> THEN <<>>
  ELSE <<E(Head(names), get_data(Head(names), store))>> \o full_snapshot(Tail(names), store)

\* http_get with the test of the section left out: an unknown section is
\* answered like no section
http_get_unknown_untested(store, identifier, path_param) ==
  IF identifier = "" \/ ~is_section(identifier)
  THEN ok_response(NonEmptyDict(full_snapshot(sections, store)))
  ELSE LET config_data == get_data(identifier, store)
       IN IF path_param # ""
          THEN IF ~Has(config_data.d, path_param)
               THEN bad_request("invalid path")
               ELSE ok_response(Get(config_data.d, path_param))
          ELSE ok_response(config_data)

\* http_get with the path segment never looked up: the whole section is returned
http_get_path_ignored(store, identifier, path_param) ==
  IF identifier # "" /\ ~is_section(identifier) THEN not_found("Config not found")
  ELSE IF identifier = "" THEN ok_response(NonEmptyDict(full_snapshot(sections, store)))
  ELSE ok_response(get_data(identifier, store))

\* identifier and path_param are "" when the URL has no such segment
http_get(store, identifier, path_param) ==
  IF identifier # "" /\ ~is_section(identifier) THEN not_found("Config not found")
  ELSE IF identifier = "" THEN ok_response(NonEmptyDict(full_snapshot(sections, store)))
  ELSE LET config_data == get_data(identifier, store)
       IN IF path_param # ""
          THEN IF ~Has(config_data.d, path_param)
               THEN bad_request("invalid path")
               ELSE ok_response(Get(config_data.d, path_param))
          ELSE ok_response(config_data)

-----------------------------------------------------------------------------
(* ConfigHandler.http_patch                                                *)

\* the handler's locals while it runs; raised: an exception left the handler
Locals(store) ==
  [app |-> store, accepted |-> <<>>, ignored |-> <<>>, events |-> <<>>, raised |-> FALSE]

Leaf(key, ok) == [e |-> "leaf", key |-> key, ok |-> ok]

\* the recording with the result of patch not tested: every leaf goes to accepted
record_result_untested(st, r, key, value) ==
  LET st1 == [st EXCEPT !.app = r.app, !.events = Append(@, Leaf(key, r.ok))]
  IN IF can_set_nested_value(st1.accepted, key)
     THEN [st1 EXCEPT !.accepted = set_nested_value(@, key, value)]
     ELSE [st1 EXCEPT !.raised = TRUE]

\* the result stored under the dotted path as one key
record_result_flat(st, r, key, value) ==
  LET st1 == [st EXCEPT !.app = r.app, !.events = Append(@, Leaf(key, r.ok))]
  IN IF r.ok
     THEN [st1 EXCEPT !.accepted = Put(@, key, value)]
     ELSE [st1 EXCEPT !.ignored = Put(@, key, value)]

\* the result stored as a tree of its own under the first segment of the path
record_result_shallow(st, r, key, value) ==
  LET st1 == [st EXCEPT !.app = r.app, !.events = Append(@, Leaf(key, r.ok))]
      one == set_nested_value(<<>>, key, value)
  IN IF r.ok
     THEN [st1 EXCEPT !.accepted = Put(@, one[1].key, one[1].val)]
     ELSE [st1 EXCEPT !.ignored = Put(@, one[1].key, one[1].val)]

\* the accepted leaf recorded with the value read back from its attribute
record_result_reread(st, r, key, value) ==
  LET st1 == [st EXCEPT !.app = r.app, !.events = Append(@, Leaf(key, r.ok))]
      read == IF key \in DOMAIN patches THEN r.app[patches[key].attr] ELSE value
  IN IF r.ok
     THEN [st1 EXCEPT !.accepted = set_nested_value(@, key, read)]
     ELSE [st1 EXCEPT !.ignored = set_nested_value(@, key, value)]

\* set_nested_value(accepted or ignored, key, value) after a patch result
record_result(st, r, key, value) ==
  LET st1 == [st EXCEPT !.app = r.app, !.events = Append(@, Leaf(key, r.ok))]
  IN IF r.ok
     THEN IF can_set_nested_value(st1.accepted, key)
          THEN [st1 EXCEPT !.accepted = set_nested_value(@, key, value)]
          ELSE [st1 EXCEPT !.raised = TRUE]
     ELSE IF can_set_nested_value(st1.ignored, key)
          THEN [st1 EXCEPT !.ignored = set_nested_value(@, key, value)]
          ELSE [st1 EXCEPT !.raised = TRUE]

\* lines 410-418: [st, data] after the metadata providers are taken out of data
pop_metadata_providers(st, data) ==
  IF ~(Has(data, "metadata") /\ truthy(Get(data, "metadata")))
  THEN [st |-> st, data |-> data]
  ELSE LET metadata == Get(data, "metadata")
       IN IF metadata.k # "dict" \/ ~Has(metadata.d, "metadataProviders")
          THEN [st |-> [st EXCEPT !.raised = TRUE], data |-> data]   \* AttributeError, KeyError
          ELSE LET metadata_providers == Get(metadata.d, "metadataProviders")
                   rest == Put(data, "metadata", D(Del(metadata.d, "metadataProviders")))
               IN IF truthy(metadata_providers)
                  THEN [st |-> record_result(st, patch_metadata(st.app, metadata_providers),
                                             "metadata.metadataProviders", metadata_providers),
                        data |-> rest]
                  ELSE [st |-> st, data |-> rest]

\* the loop's iteration with the registry lookup not tested: a path without a
\* Field is recorded like a leaf that passed
dispatch_leaf_no_lookup_test(st, item, fault) ==
  LET r == IF item.key \in DOMAIN patches
           THEN patch(patches[item.key], st.app, item.val, fault)
           ELSE [ok |-> TRUE, app |-> st.app]
  IN record_result(st, r, item.key, item.val)

\* lines 421-425: one iteration of the loop over iter_nested_items(data)
dispatch_leaf(st, item, fault) ==
  LET r == IF item.key \in DOMAIN patches
           THEN patch(patches[item.key], st.app, item.val, fault)
           ELSE [ok |-> FALSE, app |-> st.app]
  IN record_result(st, r, item.key, item.val)

\* the loop with a rejected leaf raising out of the handler
RECURSIVE dispatch_all_rejection_raises(_, _, _)
dispatch_all_rejection_raises(st, items, fault) ==
  IF items = <<>> \/ st.raised THEN st
  ELSE LET next == dispatch_leaf(st, Head(items), fault)
       IN dispatch_all_rejection_raises(
            IF next.ignored # st.ignored THEN [next EXCEPT !.raised = TRUE] ELSE next,
            Tail(items), fault)

\* the loop taking the pairs from the last to the first
RECURSIVE dispatch_all_backwards(_, _, _)
dispatch_all_backwards(st, items, fault) ==
  IF items = <<>> \/ st.raised THEN st
  ELSE dispatch_all_backwards(dispatch_leaf(st, items[Len(items)], fault),
                              SubSeq(items, 1, Len(items) - 1), fault)

\* lines 420-425
RECURSIVE dispatch_all(_, _, _)
dispatch_all(st, items, fault) ==
  IF items = <<>> \/ st.raised THEN st
  ELSE dispatch_all(dispatch_leaf(st, Head(items), fault), Tail(items), fault)

\* the end of the handler with the store restored from the file when
\* save_config fails
finish_patch_restoring(st, identifier, saved, sent, fault) ==
  LET warned == IF st.ignored # <<>> THEN Append(st.events, [e |-> "warning"]) ELSE st.events
      base == [app |-> st.app, disk |-> saved, pushed |-> sent,
               accepted |-> st.accepted, ignored |-> st.ignored]
      ev_save == Append(warned, [e |-> "save_config"])
      msg == [event |-> "configUpdated",
              data |-> [section |-> identifier, config |-> get_data(identifier, st.app)]]
      ev_push == Append(ev_save, [e |-> "push"])
  IN IF fault = "save"
     THEN [base EXCEPT !.app = saved] @@ [response |-> server_error, events |-> ev_save]
     ELSE IF fault = "push"
     THEN [base EXCEPT !.disk = st.app] @@ [response |-> server_error, events |-> ev_push]
     ELSE [base EXCEPT !.disk = st.app, !.pushed = Append(sent, msg)]
          @@ [response |-> ok_response(D(st.accepted)), events |-> ev_push]

\* the end of the handler with the message built from the store as last saved
finish_patch_stale_snapshot(st, identifier, saved, sent, fault) ==
  LET warned == IF st.ignored # <<>> THEN Append(st.events, [e |-> "warning"]) ELSE st.events
      base == [app |-> st.app, disk |-> saved, pushed |-> sent,
               accepted |-> st.accepted, ignored |-> st.ignored]
      ev_save == Append(warned, [e |-> "save_config"])
      msg == [event |-> "configUpdated",
              data |-> [section |-> identifier, config |-> get_data(identifier, saved)]]
      ev_push == Append(ev_save, [e |-> "push"])
  IN IF fault = "save"
     THEN base @@ [response |-> server_error, events |-> ev_save]
     ELSE IF fault = "push"
     THEN [base EXCEPT !.disk = st.app] @@ [response |-> server_error, events |-> ev_push]
     ELSE [base EXCEPT !.disk = st.app, !.pushed = Append(sent, msg)]
          @@ [response |-> ok_response(D(st.accepted)), events |-> ev_push]

\* the end of the handler with the message pushed before save_config is called
finish_patch_push_first(st, identifier, saved, sent, fault) ==
  LET warned == IF st.ignored # <<>> THEN Append(st.events, [e |-> "warning"]) ELSE st.events
      base == [app |-> st.app, disk |-> saved, pushed |-> sent,
               accepted |-> st.accepted, ignored |-> st.ignored]
      msg == [event |-> "configUpdated",
              data |-> [section |-> identifier, config |-> get_data(identifier, st.app)]]
      ev_push == Append(warned, [e |-> "push"])
      ev_save == Append(ev_push, [e |-> "save_config"])
  IN IF fault = "push"
     THEN base @@ [response |-> server_error, events |-> ev_push]
     ELSE IF fault = "save"
     THEN [base EXCEPT !.pushed = Append(sent, msg)] @@ [response |-> server_error, events |-> ev_save]
     ELSE [base EXCEPT !.disk = st.app, !.pushed = Append(sent, msg)]
          @@ [response |-> ok_response(D(st.accepted)), events |-> ev_save]

\* lines 427-440: warning, save_config, push, response
finish_patch(st, identifier, saved, sent, fault) ==
  LET warned == IF st.ignored # <<>> THEN Append(st.events, [e |-> "warning"]) ELSE st.events
      base == [app |-> st.app, disk |-> saved, pushed |-> sent,
               accepted |-> st.accepted, ignored |-> st.ignored]
      ev_save == Append(warned, [e |-> "save_config"])
      msg == [event |-> "configUpdated",
              data |-> [section |-> identifier, config |-> get_data(identifier, st.app)]]
      ev_push == Append(ev_save, [e |-> "push"])
  IN IF fault = "save"
     THEN base @@ [response |-> server_error, events |-> ev_save]
     ELSE IF fault = "push"
     THEN [base EXCEPT !.disk = st.app] @@ [response |-> server_error, events |-> ev_push]
     ELSE [base EXCEPT !.disk = st.app, !.pushed = Append(sent, msg)]
          @@ [response |-> ok_response(D(st.accepted)), events |-> ev_push]

\* the request leaves the handler with an exception
abort_patch(st, saved, sent) ==
  [app |-> st.app, disk |-> saved, pushed |-> sent, accepted |-> st.accepted,
   ignored |-> st.ignored, response |-> server_error, events |-> st.events]

\* the handler with the test of the section moved behind the loop
http_patch_section_tested_late(store, saved, sent, identifier, body, fault) ==
  LET st0 == Locals(store)
      early(resp) == [app |-> store, disk |-> saved, pushed |-> sent, accepted |-> <<>>,
                      ignored |-> <<>>, response |-> resp, events |-> <<>>]
  IN IF identifier = "" THEN early(bad_request("Config identifier not specified"))
     ELSE IF body.malformed THEN early(bad_request("malformed body"))
     ELSE IF body.json.k # "dict" THEN early(server_error)
     ELSE LET m == pop_metadata_providers(st0, body.json.d)
          IN IF m.st.raised THEN abort_patch(m.st, saved, sent)
             ELSE LET st == dispatch_all(m.st, iter_nested_items(m.data, ""), fault)
                  IN IF st.raised THEN abort_patch(st, saved, sent)
                     ELSE IF identifier # "main"
                     THEN [abort_patch(st, saved, sent) EXCEPT
                             !.response = not_found("Config not found")]
                     ELSE finish_patch(st, identifier, saved, sent, fault)

\* the handler with the section tested as http_get tests it: any registered
\* section passes
http_patch_any_section(store, saved, sent, identifier, body, fault) ==
  LET st0 == Locals(store)
      early(resp) == [app |-> store, disk |-> saved, pushed |-> sent, accepted |-> <<>>,
                      ignored |-> <<>>, response |-> resp, events |-> <<>>]
  IN IF identifier = "" THEN early(bad_request("Config identifier not specified"))
     ELSE IF ~is_section(identifier) THEN early(not_found("Config not found"))
     ELSE IF body.malformed THEN early(bad_request("malformed body"))
     ELSE IF body.json.k # "dict" THEN early(server_error)
     ELSE LET m == pop_metadata_providers(st0, body.json.d)
          IN IF m.st.raised THEN abort_patch(m.st, saved, sent)
             ELSE LET st == dispatch_all(m.st, iter_nested_items(m.data, ""), fault)
                  IN IF st.raised THEN abort_patch(st, saved, sent)
                     ELSE finish_patch(st, identifier, saved, sent, fault)

\* the handler decoding the body before it looks at the section
http_patch_decode_first(store, saved, sent, identifier, body, fault) ==
  LET st0 == Locals(store)
      early(resp) == [app |-> store, disk |-> saved, pushed |-> sent, accepted |-> <<>>,
                      ignored |-> <<>>, response |-> resp, events |-> <<>>]
  IN IF body.malformed THEN early(bad_request("malformed body"))
     ELSE IF identifier = "" THEN early(bad_request("Config identifier not specified"))
     ELSE IF identifier # "main" THEN early(not_found("Config not found"))
     ELSE IF body.json.k # "dict" THEN early(server_error)
     ELSE LET m == pop_metadata_providers(st0, body.json.d)
          IN IF m.st.raised THEN abort_patch(m.st, saved, sent)
             ELSE LET st == dispatch_all(m.st, iter_nested_items(m.data, ""), fault)
                  IN IF st.raised THEN abort_patch(st, saved, sent)
                     ELSE finish_patch(st, identifier, saved, sent, fault)

\* body: [malformed |-> BOOLEAN, json |-> value]; fault: the collaborator that fails
http_patch(store, saved, sent, identifier, body, fault) ==
  LET st0 == Locals(store)
      early(resp) == [app |-> store, disk |-> saved, pushed |-> sent, accepted |-> <<>>,
                      ignored |-> <<>>, response |-> resp, events |-> <<>>]
  IN IF identifier = "" THEN early(bad_request("Config identifier not specified"))
     ELSE IF identifier # "main" THEN early(not_found("Config not found"))
     ELSE IF body.malformed THEN early(bad_request("malformed body"))   \* json_decode raises
     ELSE IF body.json.k # "dict" THEN early(server_error)              \* data.get: AttributeError
     ELSE LET m == pop_metadata_providers(st0, body.json.d)
          IN IF m.st.raised THEN abort_patch(m.st, saved, sent)
             ELSE LET st == dispatch_all(m.st, iter_nested_items(m.data, ""), fault)
                  IN IF st.raised THEN abort_patch(st, saved, sent)
                     ELSE finish_patch(st, identifier, saved, sent, fault)

-----------------------------------------------------------------------------
(* Requests                                                                *)

KodiProviders ==
  D(<<E("kodi", D(<<E("id", S("kodi")), E("name", S("kodi")), E("showMetadata", B(TRUE))>>))>>)
UnknownProviders ==
  D(<<E("wdtv", D(<<E("id", S("wdtv")), E("name", S("wdtv"))>>))>>)

\* (dotted path, value) pairs of requests about the handler as a whole
HandlerPool ==
  << E("torrents.enabled", B(TRUE)),
     E("torrents.bogusField", I(5)),
     E("layout.schedule", S("calendar")),
     E("notifiers.kodi.alwaysOn", B(TRUE)),
     E("metadata.metadataProviders", KodiProviders),
     E("metadata.metadataProviders", UnknownProviders),
     E("metadata.metadataProviders", D(<<>>)),
     E("metadata.metadataProviders", None),
     E("metadata.other", I(1)) >>

\* (dotted path, value) pairs of requests about the contracts of single fields
FieldPool ==
  << E("theme.name", S("light")),
     E("showDefaults.seasonFolders", B(FALSE)),
     E("showDefaults.subtitles", B(TRUE)),
     E("showDefaults.quality", I(4)),
     E("showDefaults.status", S("bogus")),
     E("layout.schedule", S("bogus")),
     E("layout.schedule", S("calendar")),
     E("selectedRootIndex", S("2")),
     E("selectedRootIndex", S("abc")) >>

\* the index sets of the bodies over a pool: at most MaxLeaves pairs, no path twice
LeafSets(pool) ==
  {c \in SUBSET (1..Len(pool)) :
     /\ Cardinality(c) <= MaxLeaves
     /\ \A i, j \in c : pool[i].key = pool[j].key => i = j}

\* the JSON object that carries the chosen pairs, keys in pool order
RECURSIVE build_body(_, _, _)
build_body(pool, tree, c) ==
  IF c = {} THEN tree
  ELSE LET i == Min(c)
       IN build_body(pool, set_nested_value(tree, pool[i].key, pool[i].val), c \ {i})

Json(value) == [malformed |-> FALSE, json |-> value]
Malformed == [malformed |-> TRUE, json |-> None]

BodiesOver(pool) == {Json(D(build_body(pool, <<>>, c))) : c \in LeafSets(pool)}

\* bodies that are no tree of settings
OddBodies ==
  {Malformed, Json(L(<<>>)), Json(D(<<E("metadata", I(5))>>)), Json(D(<<E("torrents", D(<<>>))>>))}

HandlerBodies == BodiesOver(HandlerPool) \cup OddBodies
FieldBodies == BodiesOver(FieldPool)

\* the bodies sent to a URL other than /config/main
ProbeBodies == {Malformed, Json(D(<<E("torrents", D(<<E("enabled", B(TRUE))>>))>>))}

\* the trees a JSON body can hold over a few keys: every shape, every key
\* order and every empty sub-tree, with `size` entries in all
TreeKeys == {"torrents", "enabled", "x"}
TreeLeaves == {B(TRUE)}
MaxNodes == 3      \* entries, nested ones included, in one such tree

RECURSIVE TreesOfSize(_)
TreesOfSize(size) ==
  IF size = 0 THEN {<<>>}
  ELSE UNION {
         LET vals == IF m = 0 THEN TreeLeaves \cup {D(<<>>)}
                     ELSE {D(t) : t \in TreesOfSize(m)}
         IN {<<E(k, v)>> \o rest : k \in TreeKeys \ Keys(rest), v \in vals} :
         <<m, rest>> \in UNION {{<<m, r>> : r \in TreesOfSize(size - 1 - m)} : m \in 0..(size - 1)} }

Trees == UNION {TreesOfSize(n) : n \in 0..MaxNodes}
TreeBodies == {Json(D(t)) : t \in Trees}

\* the settings sent in requests about what a GET shows afterwards
ReadPool ==
  << E("backlogOverview.period", S("")),
     E("backlogOverview.status", S("")),
     E("backlogOverview.period", S("one_day")),
     E("rootDirs", L(<<>>)) >>

ReadBodies == BodiesOver(ReadPool)
ReadIdentifiers == {"", "main", "notifiers", "doesnotexist"}
ReadPathParams == {"", "backlogOverview", "showDefaults", "rootDirs", "doesnotexist"}

\* the settings sent in requests about the conversion of each kind of Field
KindPool ==
  << E("torrents.enabled", S("yes")),
     E("backlogOverview.period", I(5)),
     E("rootDirs", L(<<S("/tv")>>)),
     E("selectedRootIndex", S("7")),
     E("selectedRootIndex", S("abc")),
     E("metadata.metadataProviders", KodiProviders) >>

KindBodies == BodiesOver(KindPool)

\* the settings sent in requests about the order of the leaves of a body
OrderPool ==
  << E("notifiers.kodi.enabled", B(FALSE)),
     E("notifiers.kodi.alwaysOn", B(TRUE)),
     E("notifiers.plex.server.host", L(<<S("plex.local")>>)),
     E("notifiers.plex.server.username", S("bob")),
     E("torrents.enabled", B(TRUE)),
     E("layout.schedule", S("calendar")) >>

OrderBodies == BodiesOver(OrderPool)

\* the bodies sent twice in a row
RepeatBodies == HandlerBodies \cup FieldBodies \cup OrderBodies

PatchIdentifiers == {"", "main", "search"}
GetIdentifiers == {"", "main", "doesnotexist"}
PathParams == {"", "torrents", "doesnotexist"}

\* the collaborator that fails during a request
HandlerFaults == {"none", "save", "push"}
FieldFaults == {"none", "setter"}

-----------------------------------------------------------------------------
(* The store after start-up                                                *)

DefaultApp ==
  [ ANON_REDIRECT |-> S(""), USE_EMBY |-> B(FALSE), TORRENT_AUTH_TYPE |-> S(""), TORRENT_DIR |-> S(""), 
    USE_TORRENTS |-> B(FALSE), TORRENT_HIGH_BANDWIDTH |-> S(""), TORRENT_HOST |-> S(""), 
    TORRENT_LABEL |-> S(""), TORRENT_LABEL_ANIME |-> S(""), TORRENT_METHOD |-> S(""), 
    TORRENT_PASSWORD |-> S(""), TORRENT_PATH |-> B(FALSE), TORRENT_PAUSED |-> B(FALSE), 
    TORRENT_RPCURL |-> S(""), TORRENT_SEED_LOCATION |-> S(""), TORRENT_SEED_TIME |-> S(""), 
    TORRENT_USERNAME |-> S(""), TORRENT_VERIFY_CERT |-> B(FALSE), USE_NZBS |-> B(FALSE), 
    NZB_DIR |-> S(""), NZB_METHOD |-> S(""), NZBGET_CATEGORY |-> S(""), NZBGET_CATEGORY_ANIME |-> S(""), 
    NZBGET_CATEGORY_ANIME_BACKLOG |-> S(""), NZBGET_CATEGORY_BACKLOG |-> S(""), NZBGET_HOST |-> S(""), 
    NZBGET_PASSWORD |-> S(""), NZBGET_PRIORITY |-> S(""), NZBGET_USE_HTTPS |-> B(FALSE), 
    NZBGET_USERNAME |-> S(""), SAB_APIKEY |-> S(""), SAB_CATEGORY |-> S(""), 
    SAB_CATEGORY_ANIME |-> S(""), SAB_CATEGORY_ANIME_BACKLOG |-> S(""), SAB_CATEGORY_BACKLOG |-> S(""), 
    SAB_FORCED |-> B(FALSE), SAB_HOST |-> S(""), SAB_PASSWORD |-> S(""), SAB_USERNAME |-> S(""), 
    SELECTED_ROOT |-> None, COMING_EPS_LAYOUT |-> S("banner"), HISTORY_LAYOUT |-> S("detailed"), 
    HOME_LAYOUT |-> S("poster"), DISPLAY_ALL_SEASONS |-> B(FALSE), DISPLAY_SHOW_SPECIALS |-> B(FALSE), 
    SHOW_LIST_ORDER |-> L(<<>>), THEME_NAME |-> S("dark"), BACKLOG_PERIOD |-> S("all"), 
    BACKLOG_STATUS |-> S("all"), ROOT_DIRS |-> L(<<S("0"), S("/tv")>>), STATUS_DEFAULT |-> SKIPPED, 
    STATUS_DEFAULT_AFTER |-> WANTED, QUALITY_DEFAULT |-> I(3), SUBTITLES_DEFAULT |-> B(FALSE), 
    SEASON_FOLDERS_DEFAULT |-> B(TRUE), ANIME_DEFAULT |-> B(FALSE), SCENE_DEFAULT |-> B(FALSE), 
    TV_DOWNLOAD_DIR |-> S(""), PROCESS_AUTOMATICALLY |-> B(FALSE), PROCESS_METHOD |-> S(""), 
    DELRARCONTENTS |-> B(FALSE), UNPACK |-> B(FALSE), NO_DELETE |-> B(FALSE), 
    POSTPONE_IF_SYNC_FILES |-> B(FALSE), AUTOPOSTPROCESSOR_FREQUENCY |-> I(0), 
    AIRDATE_EPISODES |-> B(FALSE), MOVE_ASSOCIATED_FILES |-> B(FALSE), ALLOWED_EXTENSIONS |-> L(<<>>), 
    ADD_SHOWS_WO_DIR |-> B(FALSE), CREATE_MISSING_SHOW_DIRS |-> B(FALSE), RENAME_EPISODES |-> B(FALSE), 
    POSTPONE_IF_NO_SUBS |-> B(FALSE), NFO_RENAME |-> B(FALSE), SYNC_FILES |-> L(<<>>), 
    FILE_TIMESTAMP_TIMEZONE |-> S(""), EXTRA_SCRIPTS |-> L(<<>>), EXTRA_SCRIPTS_URL |-> S(""), 
    NAMING_PATTERN |-> S(""), NAMING_CUSTOM_ANIME |-> B(FALSE), NAMING_CUSTOM_SPORTS |-> B(FALSE), 
    NAMING_CUSTOM_ABD |-> B(FALSE), NAMING_SPORTS_PATTERN |-> S(""), NAMING_ABD_PATTERN |-> S(""), 
    NAMING_ANIME_PATTERN |-> S(""), NAMING_ANIME_MULTI_EP |-> I(0), NAMING_ANIME |-> I(0), 
    NAMING_MULTI_EP |-> I(0), NAMING_STRIP_YEAR |-> B(FALSE), RANDOMIZE_PROVIDERS |-> B(FALSE), 
    DOWNLOAD_PROPERS |-> B(FALSE), CHECK_PROPERS_INTERVAL |-> S(""), PROPERS_SEARCH_DAYS |-> I(0), 
    BACKLOG_DAYS |-> I(0), BACKLOG_FREQUENCY |-> I(0), MIN_BACKLOG_FREQUENCY |-> I(0), 
    DAILYSEARCH_FREQUENCY |-> I(0), MIN_DAILYSEARCH_FREQUENCY |-> I(0), REMOVE_FROM_CLIENT |-> B(FALSE), 
    TORRENT_CHECKER_FREQUENCY |-> I(0), MIN_TORRENT_CHECKER_FREQUENCY |-> I(0), 
    USENET_RETENTION |-> I(0), TRACKERS_LIST |-> L(<<>>), ALLOW_HIGH_PRIORITY |-> B(FALSE), 
    USE_FAILED_DOWNLOADS |-> B(FALSE), DELETE_FAILED |-> B(FALSE), CACHE_TRIMMING |-> B(FALSE), 
    MAX_CACHE_AGE |-> I(0), IGNORE_WORDS |-> L(<<>>), UNDESIRED_WORDS |-> L(<<>>), 
    PREFERRED_WORDS |-> L(<<>>), REQUIRE_WORDS |-> L(<<>>), IGNORED_SUBS_LIST |-> L(<<>>), 
    IGNORE_UND_SUBS |-> B(FALSE), USE_KODI |-> B(FALSE), KODI_NOTIFY_ONSNATCH |-> B(FALSE), 
    KODI_NOTIFY_ONDOWNLOAD |-> B(FALSE), KODI_NOTIFY_ONSUBTITLEDOWNLOAD |-> B(FALSE), 
    KODI_UPDATE_LIBRARY |-> B(FALSE), KODI_UPDATE_FULL |-> B(FALSE), KODI_UPDATE_ONLYFIRST |-> B(FALSE), 
    KODI_HOST |-> L(<<>>), KODI_USERNAME |-> S(""), KODI_PASSWORD |-> S(""), 
    KODI_LIBRARY_CLEAN_PENDING |-> B(FALSE), KODI_CLEAN_LIBRARY |-> B(FALSE), 
    USE_PLEX_SERVER |-> B(FALSE), PLEX_UPDATE_LIBRARY |-> B(FALSE), PLEX_SERVER_HOST |-> L(<<>>), 
    PLEX_SERVER_HTTPS |-> B(FALSE), USE_PLEX_CLIENT |-> B(FALSE), PLEX_CLIENT_USERNAME |-> S(""), 
    PLEX_CLIENT_HOST |-> L(<<>>), PLEX_NOTIFY_ONSNATCH |-> B(FALSE), PLEX_NOTIFY_ONDOWNLOAD |-> B(FALSE), 
    PLEX_NOTIFY_ONSUBTITLEDOWNLOAD |-> B(FALSE), EMBY_HOST |-> S(""), EMBY_APIKEY |-> S(""), 
    USE_NMJ |-> B(FALSE), NMJ_HOST |-> S(""), NMJ_DATABASE |-> S(""), NMJ_MOUNT |-> S(""), 
    USE_NMJv2 |-> B(FALSE), NMJv2_HOST |-> S(""), NMJv2_DBLOC |-> S(""), NMJv2_DATABASE |-> S(""), 
    USE_SYNOINDEX |-> B(FALSE), USE_SYNOLOGYNOTIFIER |-> B(FALSE), 
    SYNOLOGYNOTIFIER_NOTIFY_ONSNATCH |-> B(FALSE), SYNOLOGYNOTIFIER_NOTIFY_ONDOWNLOAD |-> B(FALSE), 
    SYNOLOGYNOTIFIER_NOTIFY_ONSUBTITLEDOWNLOAD |-> B(FALSE), USE_PYTIVO |-> B(FALSE), 
    PYTIVO_HOST |-> S(""), PYTIVO_TIVO_NAME |-> S(""), PYTIVO_SHARE_NAME |-> S(""), 
    USE_GROWL |-> B(FALSE), GROWL_HOST |-> S(""), GROWL_PASSWORD |-> S(""), 
    GROWL_NOTIFY_ONSNATCH |-> B(FALSE), GROWL_NOTIFY_ONDOWNLOAD |-> B(FALSE), 
    GROWL_NOTIFY_ONSUBTITLEDOWNLOAD |-> B(FALSE), USE_PROWL |-> B(FALSE), PROWL_API |-> L(<<>>), 
    PROWL_MESSAGE_TITLE |-> S(""), PROWL_PRIORITY |-> I(0), PROWL_NOTIFY_ONSNATCH |-> B(FALSE), 
    PROWL_NOTIFY_ONDOWNLOAD |-> B(FALSE), PROWL_NOTIFY_ONSUBTITLEDOWNLOAD |-> B(FALSE), 
    USE_LIBNOTIFY |-> B(FALSE), LIBNOTIFY_NOTIFY_ONSNATCH |-> B(FALSE), 
    LIBNOTIFY_NOTIFY_ONDOWNLOAD |-> B(FALSE), LIBNOTIFY_NOTIFY_ONSUBTITLEDOWNLOAD |-> B(FALSE), 
    USE_PUSHOVER |-> B(FALSE), PUSHOVER_APIKEY |-> S(""), PUSHOVER_USERKEY |-> S(""), 
    PUSHOVER_DEVICE |-> L(<<>>), PUSHOVER_SOUND |-> S(""), PUSHOVER_PRIORITY |-> I(0), 
    PUSHOVER_NOTIFY_ONSNATCH |-> B(FALSE), PUSHOVER_NOTIFY_ONDOWNLOAD |-> B(FALSE), 
    PUSHOVER_NOTIFY_ONSUBTITLEDOWNLOAD |-> B(FALSE), USE_BOXCAR2 |-> B(FALSE), 
    BOXCAR2_ACCESSTOKEN |-> S(""), BOXCAR2_NOTIFY_ONSNATCH |-> B(FALSE), 
    BOXCAR2_NOTIFY_ONDOWNLOAD |-> B(FALSE), BOXCAR2_NOTIFY_ONSUBTITLEDOWNLOAD |-> B(FALSE), 
    USE_PUSHALOT |-> B(FALSE), PUSHALOT_AUTHORIZATIONTOKEN |-> S(""), 
    PUSHALOT_NOTIFY_ONSNATCH |-> B(FALSE), PUSHALOT_NOTIFY_ONDOWNLOAD |-> B(FALSE), 
    PUSHALOT_NOTIFY_ONSUBTITLEDOWNLOAD |-> B(FALSE), USE_PUSHBULLET |-> B(FALSE), 
    PUSHBULLET_API |-> S(""), PUSHBULLET_DEVICE |-> S(""), PUSHBULLET_NOTIFY_ONSNATCH |-> B(FALSE), 
    PUSHBULLET_NOTIFY_ONDOWNLOAD |-> B(FALSE), PUSHBULLET_NOTIFY_ONSUBTITLEDOWNLOAD |-> B(FALSE), 
    USE_JOIN |-> B(FALSE), JOIN_API |-> S(""), JOIN_DEVICE |-> S(""), JOIN_NOTIFY_ONSNATCH |-> B(FALSE), 
    JOIN_NOTIFY_ONDOWNLOAD |-> B(FALSE), JOIN_NOTIFY_ONSUBTITLEDOWNLOAD |-> B(FALSE), 
    USE_FREEMOBILE |-> B(FALSE), FREEMOBILE_APIKEY |-> S(""), FREEMOBILE_ID |-> S(""), 
    FREEMOBILE_NOTIFY_ONSNATCH |-> B(FALSE), FREEMOBILE_NOTIFY_ONDOWNLOAD |-> B(FALSE), 
    FREEMOBILE_NOTIFY_ONSUBTITLEDOWNLOAD |-> B(FALSE), USE_TELEGRAM |-> B(FALSE), 
    TELEGRAM_APIKEY |-> S(""), TELEGRAM_ID |-> S(""), TELEGRAM_NOTIFY_ONSNATCH |-> B(FALSE), 
    TELEGRAM_NOTIFY_ONDOWNLOAD |-> B(FALSE), TELEGRAM_NOTIFY_ONSUBTITLEDOWNLOAD |-> B(FALSE), 
    USE_TWITTER |-> B(FALSE), TWITTER_DMTO |-> S(""), TWITTER_USERNAME |-> S(""), 
    TWITTER_PASSWORD |-> S(""), TWITTER_PREFIX |-> S(""), TWITTER_USEDM |-> B(FALSE), 
    TWITTER_NOTIFY_ONSNATCH |-> B(FALSE), TWITTER_NOTIFY_ONDOWNLOAD |-> B(FALSE), 
    TWITTER_NOTIFY_ONSUBTITLEDOWNLOAD |-> B(FALSE), USE_TRAKT |-> B(FALSE), TRAKT_PIN_URL |-> S(""), 
    TRAKT_USERNAME |-> S(""), TRAKT_ACCESS_TOKEN |-> S(""), TRAKT_TIMEOUT |-> I(0), 
    TRAKT_DEFAULT_INDEXER |-> I(0), TRAKT_SYNC |-> B(FALSE), TRAKT_SYNC_REMOVE |-> B(FALSE), 
    TRAKT_SYNC_WATCHLIST |-> B(FALSE), TRAKT_METHOD_ADD |-> I(0), TRAKT_REMOVE_WATCHLIST |-> B(FALSE), 
    TRAKT_REMOVE_SERIESLIST |-> B(FALSE), TRAKT_REMOVE_SHOW_FROM_APPLICATION |-> B(FALSE), 
    TRAKT_START_PAUSED |-> B(FALSE), TRAKT_BLACKLIST_NAME |-> S(""), USE_EMAIL |-> B(FALSE), 
    EMAIL_HOST |-> S(""), EMAIL_PORT |-> I(0), EMAIL_FROM |-> S(""), EMAIL_TLS |-> B(FALSE), 
    EMAIL_USER |-> S(""), EMAIL_PASSWORD |-> S(""), EMAIL_LIST |-> L(<<>>), EMAIL_SUBJECT |-> S(""), 
    EMAIL_NOTIFY_ONSNATCH |-> B(FALSE), EMAIL_NOTIFY_ONDOWNLOAD |-> B(FALSE), 
    EMAIL_NOTIFY_ONSUBTITLEDOWNLOAD |-> B(FALSE), USE_SLACK |-> B(FALSE), SLACK_WEBHOOK |-> S(""), 
    SLACK_NOTIFY_SNATCH |-> B(FALSE), SLACK_NOTIFY_DOWNLOAD |-> B(FALSE), 
    SLACK_NOTIFY_SUBTITLEDOWNLOAD |-> B(FALSE), ANIME_SPLIT_HOME |-> B(FALSE), 
    ANIME_SPLIT_HOME_IN_TABS |-> B(FALSE), COMING_EPS_SORT |-> S("network"), 
    COMING_EPS_DISPLAY_PAUSED |-> B(FALSE), DATE_PRESET |-> S(""), FUZZY_DATING |-> B(FALSE), 
    POSTER_SORTBY |-> S(""), POSTER_SORTDIR |-> S(""), SORT_ARTICLE |-> B(FALSE), TIME_PRESET |-> S(""), 
    TRIM_ZERO |-> B(FALSE), FANART_BACKGROUND |-> B(FALSE), FANART_BACKGROUND_OPACITY |-> I(0), 
    GIT_USERNAME |-> S(""), BRANCH |-> S("master"), CUR_COMMIT_HASH |-> S(""), APP_VERSION |-> S(""), 
    OPENSSL_VERSION |-> S(""), MAJOR_DB_VERSION |-> I(44), MINOR_DB_VERSION |-> I(11), PID |-> I(1), 
    OS_USER |-> S(""), PROG_DIR |-> S(""), DATA_DIR |-> S(""), CONFIG_FILE |-> S(""), 
    CACHE_DIR |-> S(""), LOG_DIR |-> S(""), MY_ARGS |-> S(""), WEB_ROOT |-> S(""), 
    RUNS_IN_DOCKER |-> B(FALSE), GITHUB_IO_URL |-> S(""), WIKI_URL |-> S(""), DONATIONS_URL |-> S(""), 
    APPLICATION_URL |-> S(""), DOWNLOAD_URL |-> S(""), SUBTITLES_MULTI |-> B(FALSE), 
    NAMING_FORCE_FOLDERS |-> B(FALSE), USE_SUBTITLES |-> B(FALSE), SHOWS_RECENT |-> S(""), 
    NEWS_LAST_READ |-> S(""), NEWS_LATEST |-> S(""), NEWS_UNREAD |-> I(0), KODI_ALWAYS_ON |-> B(FALSE), 
    PLEX_SERVER_USERNAME |-> S(""), PLEX_SERVER_PASSWORD |-> S(""), PLEX_SERVER_TOKEN |-> S(""), 
    metadata_provider_dict |-> D(<<E("kodi", D(<<E("id", S("kodi")), E("name", S("kodi")), E("showMetadata", B(FALSE))>>))>>), 
    LOCALE |-> L(<<None, None>>) ]

NoRequest == [method |-> "none"]

\* the handler is idle; the store holds what the configuration file held
Started(store) ==
  /\ app = store
  /\ disk = store
  /\ pushed = <<>>
  /\ request = NoRequest
  /\ response = [status |-> 0, data |-> None]
  /\ accepted = <<>>
  /\ ignored = <<>>
  /\ events = <<>>
  /\ preApp = store
  /\ npatch = 0

Init == Started(DefaultApp)

\* the two settings the validators of showDefaults read, as the file may hold them
InitFields ==
  \E force, subs \in BOOLEAN :
    Started([DefaultApp EXCEPT !.NAMING_FORCE_FOLDERS = B(force), !.USE_SUBTITLES = B(subs)])

\* GET /config[/{identifier}[/{path_param}]]
HttpGet(identifier, path_param) ==
  /\ request' = [method |-> "GET", identifier |-> identifier, path_param |-> path_param]
  /\ response' = http_get(app, identifier, path_param)
  /\ preApp' = app
  /\ accepted' = <<>>
  /\ ignored' = <<>>
  /\ events' = <<>>
  /\ UNCHANGED <<app, disk, pushed, npatch>>

\* PATCH /config[/{identifier}]
Patched(identifier, body, fault) ==
  /\ \E r \in {http_patch(app, disk, pushed, identifier, body, fault)} :
        /\ request' = [method |-> "PATCH", identifier |-> identifier, body |-> body, fault |-> fault]
        /\ app' = r.app
        /\ disk' = r.disk
        /\ pushed' = r.pushed
        /\ response' = r.response
        /\ accepted' = r.accepted
        /\ ignored' = r.ignored
        /\ events' = r.events
  /\ preApp' = app
  /\ npatch' = npatch + 1

\* ... as one of the at most MaxPatches requests a behaviour chooses freely
HttpPatch(identifier, body, fault) ==
  /\ npatch < MaxPatches
  /\ Patched(identifier, body, fault)

DoGet ==
  \E identifier \in GetIdentifiers, path_param \in PathParams :
    /\ identifier = "" => path_param = ""
    /\ HttpGet(identifier, path_param)

DoPatch ==
  \E identifier \in PatchIdentifiers, body \in HandlerBodies, fault \in HandlerFaults :
    /\ identifier # "main" => body \in ProbeBodies /\ fault = "none"
    /\ HttpPatch(identifier, body, fault)

\* the setter fails only in a request that calls it
DoFieldPatch ==
  \E body \in FieldBodies, fault \in FieldFaults :
    /\ fault = "setter" => has_path(body.json.d, "theme.name")
    /\ HttpPatch("main", body, fault)

\* a body of any shape, in the first PATCH the store receives
DoTreePatch ==
  /\ npatch = 0
  /\ \E body \in TreeBodies : HttpPatch("main", body, "none")

DoReadGet ==
  \E identifier \in ReadIdentifiers, path_param \in ReadPathParams :
    /\ identifier = "" => path_param = ""
    /\ HttpGet(identifier, path_param)

DoReadPatch == \E body \in ReadBodies : HttpPatch("main", body, "none")

DoKindPatch == \E body \in KindBodies : HttpPatch("main", body, "none")

DoOrderPatch == \E body \in OrderBodies : HttpPatch("main", body, "none")

\* the first PATCH of a behaviour, with any body of the pools
DoFirstPatch ==
  /\ npatch = 0
  /\ \E body \in RepeatBodies : HttpPatch("main", body, "none")

\* the client sends the PATCH it sent last once more
DoRepeatPatch ==
  /\ request.method = "PATCH"
  /\ npatch = 1
  /\ Patched(request.identifier, request.body, request.fault)

Next == DoGet \/ DoPatch

NextFields == DoGet \/ DoFieldPatch

\* requests about the handler as a whole
Spec == Init /\ [][Next]_vars

\* requests about the contracts of single fields
SpecFields == InitFields /\ [][NextFields]_vars

NextTrees == DoGet \/ DoTreePatch

\* requests about the walk over the body and the trees answered
SpecTrees == Init /\ [][NextTrees]_vars

NextReads == DoReadGet \/ DoReadPatch

\* requests about what a GET shows of the store the PATCH requests left
SpecReads == Init /\ [][NextReads]_vars

NextKinds == DoGet \/ DoKindPatch

\* requests about the conversion each kind of Field applies
SpecKinds == Init /\ [][NextKinds]_vars

NextOrder == DoGet \/ DoOrderPatch

\* requests about the order in which the leaves of a body are applied
SpecOrder == Init /\ [][NextOrder]_vars

NextRepeat == DoGet \/ DoFirstPatch \/ DoRepeatPatch

\* requests about a PATCH sent twice in a row
SpecRepeat == InitFields /\ [][NextRepeat]_vars

-----------------------------------------------------------------------------
(* The last request, as the properties below read it                       *)

IsPatch == request.method = "PATCH"

\* a PATCH /config/main whose body json_decode accepted
Decoded == IsPatch /\ request.identifier = "main" /\ ~request.body.malformed

\* ... and whose body is a JSON object
DecodedTree == Decoded /\ request.body.json.k = "dict"

Completed == DecodedTree /\ response.status = 200

ProvidersPath == "metadata.metadataProviders"

IsPrefix(s, t) == Len(s) <= Len(t) /\ SubSeq(t, 1, Len(s)) = s

\* the dotted paths of a tree, metadata.metadataProviders counted as one path
UnitPaths(tree) ==
  {p \in Paths(tree) : ~IsPrefix(ProvidersPath \o ".", p)}
    \cup (IF has_path(tree, ProvidersPath)
             /\ (get_path(tree, ProvidersPath).k = "dict" => get_path(tree, ProvidersPath).d # <<>>)
          THEN {ProvidersPath} ELSE {})

BodyTree == request.body.json.d

Called(e) == \E i \in 1..Len(events) : events[i].e = e
Dispatched(key) == \E i \in 1..Len(events) : events[i].e = "leaf" /\ events[i].key = key

-----------------------------------------------------------------------------
(* C1  Partition law                                                       *)

\* C1: after a PATCH /config/main that answered 200, the dotted paths of accepted
\* and those of ignored are disjoint, their union is the set of dotted leaf
\* paths of the body (metadata.metadataProviders counted as one path), and each
\* leaf holds in its tree the value it arrived with.
C1_PartitionLaw ==
  Completed =>
    /\ UnitPaths(accepted) \cap UnitPaths(ignored) = {}
    /\ UnitPaths(accepted) \cup UnitPaths(ignored) = UnitPaths(BodyTree)
    /\ \A p \in UnitPaths(accepted) : get_path(accepted, p) = get_path(BodyTree, p)
    /\ \A p \in UnitPaths(ignored) : get_path(ignored, p) = get_path(BodyTree, p)

\* the partition law over the bodies that carry no falsy metadataProviders
C1_PartitionLawTruthyProviders ==
  (Completed /\ (has_path(BodyTree, ProvidersPath) => truthy(get_path(BodyTree, ProvidersPath))))
    => C1_PartitionLaw

\* a 200 answer to {"metadata": {"metadataProviders": null}} with nothing recorded
C1_NullProvidersDropped ==
  /\ Completed
  /\ BodyTree = <<E("metadata", D(<<E("metadataProviders", None)>>))>>
  /\ accepted = <<>> /\ ignored = <<>>

-----------------------------------------------------------------------------
(* C2  Validator gate                                                      *)

\* the candidate the body carries for a path makes the validator of that path
\* return false in the store the request found
Refused(p) ==
  /\ has_path(BodyTree, p)
  /\ LET candidate == get_path(BodyTree, p)
     IN CASE p = "showDefaults.seasonFolders" ->
               truthy(preApp.NAMING_FORCE_FOLDERS) /\ candidate = B(FALSE)
          [] p = "showDefaults.subtitles" -> ~truthy(preApp.USE_SUBTITLES)
          [] p = "showDefaults.quality" ->
               ~(candidate.k = "int" /\ candidate.n \in ValidQualities)

\* C2: a leaf of showDefaults.quality, showDefaults.subtitles or
\* showDefaults.seasonFolders whose candidate its validator refuses leaves the
\* bound attribute as it was before the request, is in ignored and is not in
\* accepted nor in the response.
C2_ValidatorGate ==
  DecodedTree =>
    /\ Refused("showDefaults.seasonFolders") =>
         /\ app.SEASON_FOLDERS_DEFAULT = preApp.SEASON_FOLDERS_DEFAULT
         /\ has_path(ignored, "showDefaults.seasonFolders")
         /\ ~has_path(accepted, "showDefaults.seasonFolders")
    /\ Refused("showDefaults.subtitles") =>
         /\ app.SUBTITLES_DEFAULT = preApp.SUBTITLES_DEFAULT
         /\ has_path(ignored, "showDefaults.subtitles")
         /\ ~has_path(accepted, "showDefaults.subtitles")
    /\ Refused("showDefaults.quality") =>
         /\ app.QUALITY_DEFAULT = preApp.QUALITY_DEFAULT
         /\ has_path(ignored, "showDefaults.quality")
         /\ ~has_path(accepted, "showDefaults.quality")
    /\ response.status = 200 =>
         \A p \in {"showDefaults.seasonFolders", "showDefaults.subtitles", "showDefaults.quality"} :
           Refused(p) => ~has_path(response.data.d, p)

\* showDefaults.seasonFolders = false was refused while NAMING_FORCE_FOLDERS was
\* set and SEASON_FOLDERS_DEFAULT was true, next to a refused subtitles write
C2_Refused ==
  /\ Completed
  /\ Refused("showDefaults.seasonFolders")
  /\ Refused("showDefaults.subtitles")
  /\ preApp.SEASON_FOLDERS_DEFAULT = B(TRUE)
  /\ has_path(ignored, "showDefaults.seasonFolders")
  /\ has_path(ignored, "showDefaults.subtitles")

-----------------------------------------------------------------------------
(* C3  Partial patch                                                       *)

\* the leaves of the body that the loop over iter_nested_items sees
LoopPaths == UnitPaths(BodyTree) \ {ProvidersPath}

TorrentsBody ==
  <<E("torrents", D(<<E("enabled", B(TRUE)), E("bogusField", I(5))>>))>>

-----------------------------------------------------------------------------
(* C4  Write-then-read round trip                                          *)

\* what GET /config answers in the current store
Snapshot == http_get(app, "", "").data.d

\* where the snapshot shows a registered path: under its own section when the
\* path starts with the name of one, under main otherwise
SnapshotPath(p) ==
  IF find_dot(p, 1) > 0 /\ is_section(SubSeq(p, 1, find_dot(p, 1) - 1)) THEN p ELSE "main." \o p

\* the value the Field of p stores for the candidate v
Stored(p, v) == convert(conversion_of(patches[p]), v)

RoundTrip(p) ==
  /\ has_path(Snapshot, SnapshotPath(p))
  /\ get_path(Snapshot, SnapshotPath(p)) = Stored(p, get_path(accepted, p))

\* C4: after a PATCH /config/main that answered 200, a GET issued next shows,
\* for every registered path in accepted, the stored form of the accepted value
\* at the location of that path in the snapshot.
C4_RoundTrip ==
  Completed => \A p \in UnitPaths(accepted) \cap DOMAIN patches : RoundTrip(p)

\* the round trip of the registered paths other than notifiers.kodi.alwaysOn
C4_RoundTripBesideKodiAlwaysOn ==
  Completed =>
    \A p \in (UnitPaths(accepted) \cap DOMAIN patches) \ {"notifiers.kodi.alwaysOn"} : RoundTrip(p)

\* notifiers.kodi.alwaysOn = true was accepted; USE_KODI took the value and the
\* snapshot still shows the old KODI_ALWAYS_ON
C4_KodiAlwaysOnLost ==
  /\ Completed
  /\ has_path(accepted, "notifiers.kodi.alwaysOn")
  /\ get_path(accepted, "notifiers.kodi.alwaysOn") = B(TRUE)
  /\ app.USE_KODI = B(TRUE) /\ preApp.USE_KODI = B(FALSE)
  /\ get_path(Snapshot, "notifiers.kodi.alwaysOn") = B(FALSE)

-----------------------------------------------------------------------------
(* C5  Enum fallback                                                       *)

ScheduleLayouts == {S("poster"), S("banner"), S("list"), S("calendar")}
ShowStatuses == {SKIPPED, WANTED, IGNORED}

\* the body carries p with a candidate outside the declared set
Outside(p, members) == has_path(BodyTree, p) /\ get_path(BodyTree, p) \notin members

\* C5: a layout.schedule candidate outside {poster, banner, list, calendar} does
\* not reach COMING_EPS_LAYOUT: the attribute takes the default 'banner'; a
\* showDefaults.status candidate outside (SKIPPED, WANTED, IGNORED) does not
\* reach STATUS_DEFAULT: the Field names no default that int() converts, the
\* leaf is ignored and the attribute keeps its value.
C5_EnumFallback ==
  DecodedTree =>
    /\ Outside("layout.schedule", ScheduleLayouts) =>
         /\ app.COMING_EPS_LAYOUT # get_path(BodyTree, "layout.schedule")
         /\ app.COMING_EPS_LAYOUT = S("banner")
         /\ has_path(accepted, "layout.schedule")
    /\ Outside("showDefaults.status", ShowStatuses) =>
         /\ app.STATUS_DEFAULT # get_path(BodyTree, "showDefaults.status")
         /\ app.STATUS_DEFAULT = preApp.STATUS_DEFAULT
         /\ has_path(ignored, "showDefaults.status")

\* layout.schedule = 'bogus' and showDefaults.status = 'bogus' were sent in one
\* request
C5_BogusEnums ==
  /\ Completed
  /\ Outside("layout.schedule", ScheduleLayouts)
  /\ Outside("showDefaults.status", ShowStatuses)
  /\ get_path(BodyTree, "layout.schedule") = S("bogus")

-----------------------------------------------------------------------------
(* C6  Structured atomic field                                             *)

CarriesProviders == has_path(BodyTree, ProvidersPath) /\ get_path(BodyTree, ProvidersPath).k = "dict"

InnerDispatched ==
  \E i \in 1..Len(events) : events[i].e = "leaf" /\ IsPrefix(ProvidersPath \o ".", events[i].key)

RecordedAsUnit ==
  /\ has_path(accepted, ProvidersPath) # has_path(ignored, ProvidersPath)
  /\ has_path(accepted, ProvidersPath) => get_path(accepted, ProvidersPath) = get_path(BodyTree, ProvidersPath)
  /\ has_path(ignored, ProvidersPath) => get_path(ignored, ProvidersPath) = get_path(BodyTree, ProvidersPath)
  /\ has_path(accepted, ProvidersPath) =>
       \A i \in 1..Len(get_path(BodyTree, ProvidersPath).d) :
         LET e == get_path(BodyTree, ProvidersPath).d[i]
         IN Get(app.metadata_provider_dict.d, e.key) = e.val
  /\ has_path(ignored, ProvidersPath) => app.metadata_provider_dict = preApp.metadata_provider_dict

\* C6: after a PATCH /config/main that answered 200 and whose body carried a
\* metadata.metadataProviders sub-tree, the sub-tree is recorded whole at the
\* path metadata.metadataProviders in exactly one of accepted and ignored, the
\* store took all of its entries or none, and no leaf inside it was dispatched.
C6_AtomicUnit ==
  (Completed /\ CarriesProviders) => RecordedAsUnit /\ ~InnerDispatched

\* the same for the sub-trees that hold at least one provider
C6_AtomicUnitNonEmpty ==
  (Completed /\ CarriesProviders /\ truthy(get_path(BodyTree, ProvidersPath)))
    => RecordedAsUnit /\ ~InnerDispatched

\* a 200 answer to a body with an empty metadataProviders sub-tree that is in
\* neither tree
C6_EmptyProvidersDropped ==
  /\ Completed
  /\ CarriesProviders
  /\ get_path(BodyTree, ProvidersPath) = D(<<>>)
  /\ ~has_path(accepted, ProvidersPath) /\ ~has_path(ignored, ProvidersPath)

-----------------------------------------------------------------------------
(* C7  Exception isolation                                                 *)

\* the leaf of the body whose Field raises: theme.name when the setter fails,
\* selectedRootIndex when int() cannot parse the candidate
Raises(p) ==
  /\ has_path(BodyTree, p)
  /\ \/ p = "theme.name" /\ request.fault = "setter"
     \/ p = "selectedRootIndex" /\ ~int_ok(get_path(BodyTree, p))

RaisingPaths == {p \in {"theme.name", "selectedRootIndex"} : Raises(p)}

\* the same request with no Field raising in theme.name
Undisturbed == http_patch(preApp, preApp, <<>>, "main", request.body, "none")

\* C7: when the setter of theme.name or the conversion of selectedRootIndex
\* raises, that leaf is in ignored and its attribute keeps its value; every leaf
\* of the body is dispatched, every other leaf ends in the tree it ends in when
\* nothing raises, save_config is called, and the request answers 200 with the
\* accepted tree.
C7_ExceptionIsolation ==
  (DecodedTree /\ RaisingPaths # {}) =>
    /\ \A p \in RaisingPaths : has_path(ignored, p) /\ ~has_path(accepted, p)
    /\ Raises("theme.name") => app.THEME_NAME = preApp.THEME_NAME
    /\ Raises("selectedRootIndex") => app.SELECTED_ROOT = preApp.SELECTED_ROOT
    /\ \A p \in UnitPaths(BodyTree) : Dispatched(p)
    /\ \A p \in UnitPaths(BodyTree) \ {"theme.name"} :
         has_path(accepted, p) <=> has_path(Undisturbed.accepted, p)
    /\ Called("save_config")
    /\ disk = app
    /\ response = ok_response(D(accepted))

\* the setter of theme.name raised in a request that also carried a leaf that
\* was accepted
C7_SetterRaised ==
  /\ DecodedTree
  /\ Raises("theme.name")
  /\ has_path(ignored, "theme.name")
  /\ accepted # <<>>
  /\ response.status = 200

-----------------------------------------------------------------------------
(* C8  Persist once, last                                                  *)

SaveCalls == {i \in 1..Len(events) : events[i].e = "save_config"}

SavedOnceLast ==
  /\ Cardinality(SaveCalls) = 1
  /\ \A i \in 1..Len(events) : events[i].e = "leaf" => \A j \in SaveCalls : i < j
  /\ \A p \in UnitPaths(BodyTree) :
       (p # ProvidersPath \/ truthy(get_path(BodyTree, p))) => Dispatched(p)

\* C8: a PATCH /config/main whose body decodes to a JSON object calls
\* save_config exactly once, after every leaf and the metadataProviders unit
\* were dispatched.
C8_PersistOnceLast == DecodedTree => SavedOnceLast

\* the same for the requests that left the metadata special case without an
\* exception
C8_PersistOnceLastPastMetadata ==
  (DecodedTree /\ ~pop_metadata_providers(Locals(preApp), BodyTree).st.raised) => SavedOnceLast

\* the body {"metadata": {"other": 1}} ended the request without a save
C8_NoSaveAfterKeyError ==
  /\ DecodedTree
  /\ BodyTree = <<E("metadata", D(<<E("other", I(1))>>))>>
  /\ response.status = 500
  /\ SaveCalls = {}

-----------------------------------------------------------------------------
(* C9  Persistence failure without rollback                                *)

SaveFailed == DecodedTree /\ request.fault = "save" /\ Called("save_config")

\* the store as the same request leaves it when save_config succeeds
AppliedStore == http_patch(preApp, preApp, <<>>, "main", request.body, "none").app

\* C9: when save_config fails, the request does not answer 200, nothing is
\* pushed for it and the store holds every value the accepted leaves wrote:
\* USE_TORRENTS for torrents.enabled, COMING_EPS_LAYOUT and COMING_EPS_SORT for
\* layout.schedule = calendar, the providers of an accepted metadataProviders
\* unit; it is the store a successful save leaves.
C9_NoRollback ==
  SaveFailed =>
    /\ response.status # 200
    /\ ~Called("push")
    /\ app = AppliedStore
    /\ has_path(accepted, "torrents.enabled") =>
         app.USE_TORRENTS = bool(get_path(accepted, "torrents.enabled"))
    /\ has_path(accepted, "layout.schedule") =>
         /\ app.COMING_EPS_LAYOUT = get_path(accepted, "layout.schedule")
         /\ app.COMING_EPS_SORT = S("date")
    /\ has_path(accepted, ProvidersPath) =>
         Get(app.metadata_provider_dict.d, "kodi") = Get(get_path(accepted, ProvidersPath).d, "kodi")

\* save_config failed after torrents.enabled = true was applied to a store that
\* held false
C9_SaveFailedAfterWrite ==
  /\ SaveFailed
  /\ has_path(accepted, "torrents.enabled")
  /\ preApp.USE_TORRENTS = B(FALSE)
  /\ app.USE_TORRENTS = B(TRUE)
  /\ response.status = 500

-----------------------------------------------------------------------------
(* C10  Complete or fail before mutation                                   *)

C10_NotFound ==
  /\ IsPatch
  /\ request.identifier = "search"
  /\ ~request.body.malformed
  /\ response.status = 404
  /\ app = preApp

-----------------------------------------------------------------------------
(* C11  Change broadcast                                                   *)

\* the message a PATCH /config/main pushes in the store it leaves
ConfigUpdated(store) ==
  [event |-> "configUpdated", data |-> [section |-> "main", config |-> get_data("main", store)]]

PushCalls == {i \in 1..Len(events) : events[i].e = "push"}

\* a step that answers a PATCH with 200 appends exactly one message to the
\* pushed ones: configUpdated with section main and the snapshot of main taken
\* in the store as the request leaves it
BroadcastStep ==
  (request'.method = "PATCH" /\ response'.status = 200)
    => pushed' = Append(pushed, ConfigUpdated(app'))

\* after a PATCH /config/main that answered 200, push was called once, after
\* every leaf, and the last message pushed is configUpdated for section main
\* with the snapshot of main in the store the request left: it shows
\* torrents.enabled and layout.schedule as the accepted leaves wrote them, and
\* comingEpsSort as the post processor left it
Broadcast ==
  Completed =>
    /\ Cardinality(PushCalls) = 1
    /\ \A i \in 1..Len(events) : events[i].e = "leaf" => \A j \in PushCalls : i < j
    /\ pushed # <<>>
    /\ pushed[Len(pushed)] = ConfigUpdated(app)
    /\ LET config == pushed[Len(pushed)].data.config.d
       IN /\ has_path(accepted, "torrents.enabled") =>
               get_path(config, "torrents.enabled") = bool(get_path(accepted, "torrents.enabled"))
          /\ has_path(accepted, "layout.schedule") =>
               /\ get_path(config, "layout.schedule") = get_path(accepted, "layout.schedule")
               /\ get_path(config, "comingEpsSort") = app.COMING_EPS_SORT

-----------------------------------------------------------------------------
(* C12  The response is the accepted set                                   *)

\* the value a registered leaf of the body leaves in its attribute when it
\* takes effect: the default for an Enum candidate outside the set, the
\* converted candidate otherwise
Written(p) ==
  LET field == patches[p]
      v == get_path(BodyTree, p)
      member == \E i \in 1..Len(field.enums) : field.enums[i] = v
  IN IF field.kind = "Enum" /\ ~member THEN field.default_value ELSE Stored(p, v)

Attr(store, p) == store[patches[p].attr]

\* C12: after a PATCH /config/main that answered 200 the response is the
\* accepted tree; a registered leaf of the body is in it exactly when patch
\* applied it: then its attribute holds the value written, otherwise the
\* attribute holds what it held before and the leaf is in ignored; no path of
\* ignored is in the response; and a request with a non-empty ignored tree and
\* no failing collaborator logs one warning and answers 200.
C12_ResponseIsAccepted ==
  /\ Completed =>
       /\ response.data = D(accepted)
       /\ UnitPaths(response.data.d) \cap UnitPaths(ignored) = {}
       /\ \A p \in UnitPaths(BodyTree) \cap DOMAIN patches :
            /\ has_path(response.data.d, p) <=>
                 \E i \in 1..Len(events) : events[i] = Leaf(p, TRUE)
            /\ has_path(response.data.d, p) => Attr(app, p) = Written(p)
            /\ ~has_path(response.data.d, p) =>
                 /\ Attr(app, p) = Attr(preApp, p)
                 /\ has_path(ignored, p)
  /\ (DecodedTree /\ ignored # <<>>) =>
       /\ Cardinality({i \in 1..Len(events) : events[i].e = "warning"}) = 1
       /\ response.status = 200

\* a 200 answer that holds selectedRootIndex and leaves out a refused
\* showDefaults.subtitles
C12_AcceptedBesideIgnored ==
  /\ Completed
  /\ has_path(response.data.d, "selectedRootIndex")
  /\ app.SELECTED_ROOT = I(2)
  /\ has_path(ignored, "showDefaults.subtitles")
  /\ ~has_path(response.data.d, "showDefaults.subtitles")

-----------------------------------------------------------------------------
(* C13  Write section gate                                                 *)

\* a PATCH outside /config/main is answered 400 without a section and 404 with
\* one, and touches neither the store, nor the file, nor the listeners
SectionGateStep ==
  (request'.method = "PATCH" /\ request'.identifier # "main") =>
    /\ response'.status = IF request'.identifier = "" THEN 400 ELSE 404
    /\ app' = app /\ disk' = disk /\ pushed' = pushed
    /\ events' = <<>>
    /\ accepted' = <<>> /\ ignored' = <<>>

\* C13: a PATCH with no section answers 400 and a PATCH with a section other
\* than main answers 404; in both cases no attribute of the store changes,
\* save_config is not called and nothing is pushed.
C13_SectionGate == [][SectionGateStep]_vars

\* a PATCH with no section that carried torrents.enabled = true was answered
\* 400 and USE_TORRENTS is still false
C13_NoSection ==
  /\ IsPatch
  /\ request.identifier = ""
  /\ ~request.body.malformed
  /\ has_path(request.body.json.d, "torrents.enabled")
  /\ response.status = 400
  /\ app.USE_TORRENTS = B(FALSE)

-----------------------------------------------------------------------------
(* C14  Reads are pure; an unknown section is 404                          *)

IsGet == request.method = "GET"

\* a GET leaves the store, the file and the listeners alone, whatever it answers
PureReadStep ==
  request'.method = "GET" =>
    /\ app' = app /\ disk' = disk /\ pushed' = pushed
    /\ events' = <<>>
    /\ response'.status \in {200, 400, 404}

\* a GET of a section that is no producer is answered 404 with the message
\* alone, no section data
UnknownSectionRead ==
  (IsGet /\ request.identifier # "" /\ ~is_section(request.identifier)) =>
    response = [status |-> 404, data |-> S("Config not found")]

\* C14: a GET of a section that is no registered producer answers 404 with no
\* section data, and no GET, answered 200, 404 or 400, changes an attribute of
\* the store, saves or pushes.
C14_PureReads == []UnknownSectionRead /\ [][PureReadStep]_vars

\* GET /config/doesnotexist was answered 404 after a PATCH had changed the store
C14_UnknownSection ==
  /\ IsGet
  /\ request.identifier = "doesnotexist"
  /\ response.status = 404
  /\ npatch = 1
  /\ app # DefaultApp

-----------------------------------------------------------------------------
(* C15  Sub-path read                                                      *)

SubPathRead == IsGet /\ is_section(request.identifier) /\ request.path_param # ""

\* the snapshot of the section the last GET named, in the current store
SectionSnapshot == get_data(request.identifier, app)

\* C15: a GET of /config/{section}/{segment} on a registered section answers
\* 200 with the value the section's snapshot holds under the top-level key
\* segment when the key is there, and 400 when it is not; it answers neither
\* 404 nor the whole section.  GET /config/main/torrents answers the torrents
\* sub-tree, whose enabled is bool(USE_TORRENTS).
C15_SubPathRead ==
  SubPathRead =>
    /\ response.status \in {200, 400}
    /\ response.status = 200 <=> Has(SectionSnapshot.d, request.path_param)
    /\ response.status = 200 =>
         /\ response.data = Get(SectionSnapshot.d, request.path_param)
         /\ response.data # SectionSnapshot
    /\ response.status = 400 => response.data.k = "str"
    /\ (request.identifier = "main" /\ request.path_param = "torrents") =>
         /\ response.status = 200
         /\ get_path(response.data.d, "enabled") = bool(app.USE_TORRENTS)
         /\ ~Has(response.data.d, "torrents")
    /\ request.path_param = "doesnotexist" => response.status = 400

\* GET /config/main/torrents showed enabled = true after a PATCH had set it
C15_TorrentsRead ==
  /\ SubPathRead
  /\ request.path_param = "torrents"
  /\ response.status = 200
  /\ get_path(response.data.d, "enabled") = B(TRUE)

-----------------------------------------------------------------------------
(* C16  Section set and full snapshot                                      *)

Producers == {"main", "qualities", "statuses", "metadata", "search", "notifiers"}

\* names that are no producer: a sub-section, a member that is no data_*
\* function, a producer's own function name
Strangers == {"doesnotexist", "torrents", "sections", "data_main"}

\* C16: in every store GET accepts exactly main, qualities, statuses, metadata,
\* search and notifiers as section (200) and answers 404 to any other name; a
\* GET with no section answers 200 with a tree whose keys are these six names,
\* each holding what GET of that section alone answers in the same store.
C16_SectionSet ==
  /\ \A s \in Producers : http_get(app, s, "").status = 200
  /\ \A s \in Strangers : http_get(app, s, "").status = 404
  /\ (IsGet /\ request.identifier = "") =>
       /\ response.status = 200
       /\ response.data.k = "dict"
       /\ Keys(response.data.d) = Producers
       /\ Len(response.data.d) = Cardinality(Producers)
       /\ \A s \in Producers : Get(response.data.d, s) = http_get(app, s, "").data
  /\ (IsGet /\ request.identifier # "" /\ request.path_param = "") =>
       (response.status = 200 <=> request.identifier \in Producers)

\* GET /config answered the six sections after a PATCH had changed the store
C16_FullSnapshot ==
  /\ IsGet
  /\ request.identifier = ""
  /\ response.status = 200
  /\ Len(response.data.d) = 6
  /\ npatch = 1
  /\ app # DefaultApp

-----------------------------------------------------------------------------
(* C17  Path codec round trip                                              *)

\* a tree without the sub-trees that hold no leaf
RECURSIVE Prune(_)
Prune(tree) ==
  IF tree = <<>> THEN <<>>
  ELSE LET e == Head(tree)
           rest == Prune(Tail(tree))
       IN IF e.val.k # "dict" THEN <<e>> \o rest
          ELSE IF Prune(e.val.d) = <<>> THEN rest
          ELSE <<E(e.key, D(Prune(e.val.d)))>> \o rest

\* set_nested_value applied to tree for each pair of items, in order
RECURSIVE Rebuild(_, _)
Rebuild(tree, items) ==
  IF items = <<>> THEN tree
  ELSE Rebuild(set_nested_value(tree, Head(items).key, Head(items).val), Tail(items))

BodyItems == iter_nested_items(BodyTree, "")

\* C17: for the tree T of a PATCH body, whose keys hold no dot, applying
\* set_nested_value to an empty tree for each pair of iter_nested_items(T), in
\* order, gives T without its sub-trees that hold no leaf, keys in the order of
\* T; a request that recorded every leaf in one of accepted and ignored left
\* that tree in it.
C17_PathCodecRoundTrip ==
  DecodedTree =>
    /\ \A i \in 1..Len(BodyItems) :
         can_set_nested_value(Rebuild(<<>>, SubSeq(BodyItems, 1, i - 1)), BodyItems[i].key)
    /\ Rebuild(<<>>, BodyItems) = Prune(BodyTree)
    /\ (response.status = 200 /\ accepted = <<>>) => ignored = Prune(BodyTree)
    /\ (response.status = 200 /\ ignored = <<>>) => accepted = Prune(BodyTree)

\* a body with a leaf two levels down beside an empty sub-tree, answered 200
C17_PrunedBody ==
  /\ Completed
  /\ Prune(BodyTree) # BodyTree
  /\ \E i \in 1..Len(BodyItems) : Len(split(BodyItems[i].key)) > 1
  /\ Len(BodyTree) > 1

-----------------------------------------------------------------------------
(* C18  iter_nested_items                                                  *)

\* the entries of a tree, at any depth, whose value is no tree
RECURSIVE LeafCount(_)
LeafCount(tree) ==
  IF tree = <<>> THEN 0
  ELSE (IF Head(tree).val.k = "dict" THEN LeafCount(Head(tree).val.d) ELSE 1)
       + LeafCount(Tail(tree))

\* a depth-first walk of tree in key iteration order meets ks1 before ks2
RECURSIVE WalkedBefore(_, _, _)
WalkedBefore(tree, ks1, ks2) ==
  IF ks1[1] # ks2[1] THEN IndexOf(tree, ks1[1]) < IndexOf(tree, ks2[1])
  ELSE /\ Len(ks1) > 1 /\ Len(ks2) > 1
       /\ WalkedBefore(Get(tree, ks1[1]).d, Tail(ks1), Tail(ks2))

\* the dotted paths under which a tree holds an empty tree
RECURSIVE EmptyPaths(_, _)
EmptyPaths(tree, prefix) ==
  IF tree = <<>> THEN {}
  ELSE LET e == Head(tree)
       IN (IF e.val.k # "dict" THEN {}
           ELSE IF e.val.d = <<>> THEN {prefix \o e.key}
           ELSE EmptyPaths(e.val.d, prefix \o e.key \o "."))
          \cup EmptyPaths(Tail(tree), prefix)

IsLeafEvent(ev) == ev.e = "leaf"
LeafEvents == SelectSeq(events, IsLeafEvent)

\* C18: for the tree of a PATCH body, iter_nested_items yields one pair per
\* leaf, each the dotted path of a leaf with the value the tree holds there,
\* no value a tree, in the order of a depth-first walk in key iteration
\* order; no pair lies at or under an empty sub-tree; and the request that
\* answered 200 dispatched exactly these pairs, in this order, so none for an
\* empty sub-tree.
C18_Flatten ==
  DecodedTree =>
    /\ Len(BodyItems) = LeafCount(BodyTree)
    /\ \A i \in 1..Len(BodyItems) :
         /\ BodyItems[i].val.k # "dict"
         /\ has_path(BodyTree, BodyItems[i].key)
         /\ get_path(BodyTree, BodyItems[i].key) = BodyItems[i].val
    /\ \A i, j \in 1..Len(BodyItems) :
         i < j => WalkedBefore(BodyTree, split(BodyItems[i].key), split(BodyItems[j].key))
    /\ \A q \in EmptyPaths(BodyTree, ""), i \in 1..Len(BodyItems) :
         BodyItems[i].key # q /\ ~IsPrefix(q \o ".", BodyItems[i].key)
    /\ response.status = 200 =>
         /\ Len(LeafEvents) = Len(BodyItems)
         /\ \A i \in 1..Len(BodyItems) : LeafEvents[i].key = BodyItems[i].key
         /\ \A q \in EmptyPaths(BodyTree, "") :
              ~Dispatched(q) /\ ~has_path(accepted, q) /\ ~has_path(ignored, q)

\* a body with two leaves and an empty sub-tree, answered 200
C18_EmptySubTreeBesideLeaves ==
  /\ Completed
  /\ EmptyPaths(BodyTree, "") # {}
  /\ Len(BodyItems) = 2
  /\ Len(LeafEvents) = 2

-----------------------------------------------------------------------------
(* C19  set_nested_value                                                   *)

\* after is before with the value under the keys ks set to value: every key
\* off the path is where it was with the value it had, a key of the path that
\* was there keeps its place, one that was missing is added, and the segments
\* before the last hold trees
RECURSIVE SetAlong(_, _, _, _)
SetAlong(before, after, ks, value) ==
  /\ Len(after) = Len(before) + (IF Has(before, ks[1]) THEN 0 ELSE 1)
  /\ \A i \in 1..Len(before) :
       /\ after[i].key = before[i].key
       /\ before[i].key # ks[1] => after[i] = before[i]
  /\ Has(after, ks[1])
  /\ IF Len(ks) = 1 THEN Get(after, ks[1]) = value
     ELSE /\ Get(after, ks[1]).k = "dict"
          /\ SetAlong(IF Has(before, ks[1]) THEN Get(before, ks[1]).d ELSE <<>>,
                      Get(after, ks[1]).d, Tail(ks), value)

\* the dotted paths set_nested_value is tried with on the tree of a body
SetPaths == Paths(BodyTree) \cup {"x", "x.torrents", "torrents.enabled.x", "enabled.x.torrents"}

\* no mapping of the tree holds a key twice
RECURSIVE UniqueKeys(_)
UniqueKeys(tree) ==
  /\ Cardinality(Keys(tree)) = Len(tree)
  /\ \A i \in 1..Len(tree) : tree[i].val.k = "dict" => UniqueKeys(tree[i].val.d)

\* the pairs of the body the request recorded with the result ok
Recorded(ok) ==
  LET keys == {LeafEvents[i].key : i \in {j \in 1..Len(LeafEvents) : LeafEvents[j].ok = ok}}
  IN SelectSeq(BodyItems, LAMBDA item : item.key \in keys)

\* C19: set_nested_value(tree, p, v), for the tree of a PATCH body and every
\* path p none of whose segments before the last holds a value that is no
\* tree, gives the tree with v under p: a missing segment before the last is
\* added holding a tree, the last segment holds v whatever it held, and every
\* key off the path keeps its place and its value. A request that answered
\* 200 left in accepted and in ignored the trees these assignments build from
\* an empty tree, one per leaf in the order of dispatch, so each leaf is
\* found under its path and no mapping holds a key twice.
C19_SetPath ==
  DecodedTree =>
    /\ \A p \in SetPaths :
         can_set_nested_value(BodyTree, p) =>
           /\ SetAlong(BodyTree, set_nested_value(BodyTree, p, I(7)), split(p), I(7))
           /\ get_path(set_nested_value(BodyTree, p, I(7)), p) = I(7)
    /\ response.status = 200 =>
         /\ accepted = Rebuild(<<>>, Recorded(TRUE))
         /\ ignored = Rebuild(<<>>, Recorded(FALSE))
         /\ UniqueKeys(accepted) /\ UniqueKeys(ignored)
         /\ \A i \in 1..Len(BodyItems) :
              LET tree == IF LeafEvents[i].ok THEN accepted ELSE ignored
              IN has_path(tree, BodyItems[i].key)
                 /\ get_path(tree, BodyItems[i].key) = BodyItems[i].val

\* two ignored leaves under one key of the body, answered 200, beside a path
\* the body holds that set_nested_value overwrites and one it creates
C19_SiblingsUnderOnePrefix ==
  /\ Completed
  /\ \E i, j \in 1..Len(BodyItems) :
       /\ i # j
       /\ Len(split(BodyItems[i].key)) = 2
       /\ split(BodyItems[i].key)[1] = split(BodyItems[j].key)[1]
       /\ ~LeafEvents[i].ok /\ ~LeafEvents[j].ok
       /\ Len(ignored) = 1
  /\ \E p \in SetPaths : can_set_nested_value(BodyTree, p) /\ ~has_path(BodyTree, p)

-----------------------------------------------------------------------------
(* C20  Registry invariant                                                 *)

\* the dotted paths the dict literal of lines 72-364 writes, one per line
LiteralKeys == [i \in 1..Len(patches_entries) |-> patches_entries[i][1]]

\* p is a proper dotted prefix of q
ProperDottedPrefix(p, q) == Len(p) < Len(q) /\ IsPrefix(p \o ".", q)

\* no two lines of the literal share a path: each path maps to the Field
\* written against it
OneFieldPerPath ==
  /\ Cardinality(DOMAIN patches) = Len(patches_entries)
  /\ \A i \in 1..Len(patches_entries) : patches[LiteralKeys[i]] = patches_entries[i][2]

NoInnerNodeRegistered == \A p, q \in DOMAIN patches : ~ProperDottedPrefix(p, q)

\* the paths a request is probed with: registered ones, an inner node of the
\* registry, and strangers
ProbeKeys == {"torrents.enabled", "layout.schedule", "torrents", "layout", "torrents.bogusField", "x"}

\* C20: the registry is the table the dict literal of the class writes: no
\* two lines of the literal share a dotted path, so each path maps to the one
\* Field written against it; no registered path is a proper dotted prefix of
\* another; and in every state, whatever GET and PATCH requests came before,
\* a leaf is looked up in this table: a path of the table is dispatched to its
\* Field, any other path is ignored, and a leaf recorded as accepted has a
\* registered path.
C20_RegistryInvariant ==
  /\ OneFieldPerPath
  /\ NoInnerNodeRegistered
  /\ \A key \in ProbeKeys \ DOMAIN patches :
       dispatch_leaf(Locals(app), E(key, B(TRUE)), "none").events = <<Leaf(key, FALSE)>>
  /\ \A key \in ProbeKeys \cap DOMAIN patches :
       dispatch_leaf(Locals(app), E(key, B(TRUE)), "none")
         = record_result(Locals(app), patch(patches[key], app, B(TRUE), "none"), key, B(TRUE))
  /\ \A i \in 1..Len(LeafEvents) :
       LeafEvents[i].key # ProvidersPath => (LeafEvents[i].key \in DOMAIN patches \/ ~LeafEvents[i].ok)

\* after a PATCH that had a registered leaf accepted and a stranger ignored,
\* the lookup still tells the two apart
C20_LookupAfterPatch ==
  /\ Completed
  /\ npatch = 1
  /\ \E i, j \in 1..Len(LeafEvents) :
       /\ LeafEvents[i].ok /\ LeafEvents[i].key \in DOMAIN patches
       /\ ~LeafEvents[j].ok /\ LeafEvents[j].key \notin DOMAIN patches
  /\ app # preApp

-----------------------------------------------------------------------------
(* C21  Non-empty discipline                                               *)

\* a value that is neither None nor '' nor a tree that is empty or holds, at
\* any depth, a key with such a value
RECURSIVE Disciplined(_)
Disciplined(value) ==
  /\ value # None
  /\ value # S("")
  /\ value.k = "dict" =>
       /\ value.d # <<>>
       /\ \A i \in 1..Len(value.d) : Disciplined(value.d[i].val)

\* the dotted paths of a tree under which the discipline is broken
RECURSIVE Breaches(_, _)
Breaches(tree, prefix) ==
  UNION {LET v == tree[i].val
             p == prefix \o tree[i].key
         IN IF v = None \/ v = S("") \/ v = D(<<>>) THEN {p}
            ELSE IF v.k = "dict" THEN Breaches(v.d, p \o ".")
            ELSE {} : i \in 1..Len(tree)}

\* C21: the tree a GET answers with 200 (the full snapshot, a section, or the
\* value under a sub-path) holds no key with the value None or '' and no
\* empty sub-tree, at any depth, the showDefaults sub-tree of main included.
C21_NonEmptyDiscipline ==
  (IsGet /\ response.status = 200) => Disciplined(response.data)

\* a value that neither is None or '' nor holds, at any depth, a key with
\* such a value
RECURSIVE NoEmptyValue(_)
NoEmptyValue(value) ==
  /\ value # None
  /\ value # S("")
  /\ value.k = "dict" => \A i \in 1..Len(value.d) : NoEmptyValue(value.d[i].val)

\* the part of the discipline that holds: no key of a tree a GET answers with
\* holds None or ''
C21_NoEmptyValue ==
  (IsGet /\ response.status = 200) => NoEmptyValue(response.data)

\* GET /config/main answered with an empty backlogOverview sub-tree after a
\* PATCH that set both of its settings to ''
C21_EmptyBacklogOverview ==
  /\ IsGet /\ request.identifier = "main" /\ request.path_param = ""
  /\ response.status = 200
  /\ Has(response.data.d, "backlogOverview")
  /\ Get(response.data.d, "backlogOverview") = D(<<>>)
  /\ npatch = 1
  /\ app.BACKLOG_PERIOD = S("") /\ app.BACKLOG_STATUS = S("")
  /\ Disciplined(http_get(DefaultApp, "main", "").data)

-----------------------------------------------------------------------------
(* C22  Field application order                                            *)

SchedulePath == "layout.schedule"
ScheduleField == patches[SchedulePath]

\* the candidates a layout.schedule leaf is tried with
ScheduleCandidates == ScheduleLayouts \cup {S("bogus"), I(5), None}

\* the Field of layout.schedule behind a validator, and behind a setter
GuardedSchedule == [ScheduleField EXCEPT !.validator = "use_subtitles"]
SetterSchedule == [ScheduleField EXCEPT !.setter = "theme_name_setter"]

\* C22: a layout.schedule leaf leaves COMING_EPS_SORT at 'date' when the
\* value it stored in COMING_EPS_LAYOUT is 'calendar' and as it was for any
\* other stored value, the default stored for a candidate outside the set
\* included; a request without that leaf leaves COMING_EPS_SORT as it was.
\* The validator sees the candidate before its conversion, and a leaf the
\* validator refuses or whose setter raises changes nothing: the
\* postProcessor has not run.
C22_ApplicationOrder ==
  /\ DecodedTree =>
       IF has_path(BodyTree, SchedulePath)
       THEN /\ Dispatched(SchedulePath)
            /\ has_path(accepted, SchedulePath)
            /\ app.COMING_EPS_LAYOUT = S("calendar") <=> get_path(BodyTree, SchedulePath) = S("calendar")
            /\ app.COMING_EPS_SORT =
                 IF app.COMING_EPS_LAYOUT = S("calendar") THEN S("date") ELSE preApp.COMING_EPS_SORT
       ELSE app.COMING_EPS_SORT = preApp.COMING_EPS_SORT
  /\ \A v \in ScheduleCandidates :
       /\ \A r \in {patch(ScheduleField, app, v, "none")} :
            /\ r.ok
            /\ r.app.COMING_EPS_LAYOUT = (IF v \in ScheduleLayouts THEN v ELSE S("banner"))
            /\ r.app.COMING_EPS_SORT =
                 IF r.app.COMING_EPS_LAYOUT = S("calendar") THEN S("date") ELSE app.COMING_EPS_SORT
            /\ r.app = [app EXCEPT !.COMING_EPS_LAYOUT = r.app.COMING_EPS_LAYOUT,
                                   !.COMING_EPS_SORT = r.app.COMING_EPS_SORT]
       /\ ~truthy(app.USE_SUBTITLES) =>
            patch(GuardedSchedule, app, v, "none") = [ok |-> FALSE, app |-> app]
       /\ truthy(app.USE_SUBTITLES) =>
            patch(GuardedSchedule, app, v, "none") = patch(ScheduleField, app, v, "none")
       /\ patch(SetterSchedule, app, v, "setter") = [ok |-> FALSE, app |-> app]
  /\ \A r \in {patch(patches["showDefaults.seasonFolders"],
                      [app EXCEPT !.NAMING_FORCE_FOLDERS = B(TRUE)], I(0), "none")} :
       r.ok /\ r.app.SEASON_FOLDERS_DEFAULT = B(FALSE)

\* a request that stored 'calendar' and turned the sort from 'network' to
\* 'date', beside a leaf it rejected, in a store whose validator refuses
C22_CalendarSortsByDate ==
  /\ Completed
  /\ get_path(BodyTree, SchedulePath) = S("calendar")
  /\ preApp.COMING_EPS_SORT = S("network")
  /\ app.COMING_EPS_SORT = S("date")
  /\ ignored # <<>>
  /\ ~truthy(app.USE_SUBTITLES)

-----------------------------------------------------------------------------
(* C23  Kind-specific conversion                                           *)

\* the kind lines 77, 112, 122 and 124 declare for four paths whose Field has
\* neither validator nor converter nor setter
DeclaredKind ==
  [p \in {"torrents.enabled", "selectedRootIndex", "backlogOverview.period", "rootDirs"} |->
     CASE p = "torrents.enabled" -> "Boolean"
       [] p = "selectedRootIndex" -> "Integer"
       [] p = "backlogOverview.period" -> "String"
       [] p = "rootDirs" -> "List"]

PlainPaths == Paths(BodyTree) \cap DOMAIN DeclaredKind

\* the candidates each kind of Field is tried with
KindCandidates ==
  {None, B(TRUE), B(FALSE), I(0), I(5), S(""), S("abc"), S("7"), L(<<>>), L(<<I(1)>>)}

\* what a Field of the kind of p stores for candidate c in attribute a of
\* the store r.app, r the result of its patch
StoredAsKind(kind, r, a, c, before) ==
  CASE kind = "Boolean" -> r.ok /\ r.app[a] = bool(c)
    [] kind \in {"String", "List"} -> r.ok /\ r.app[a] = c
    [] kind = "Integer" ->
         IF int_ok(c) THEN r.ok /\ r.app[a] = int(c)
         ELSE ~r.ok /\ r.app = before
    [] OTHER -> TRUE

\* C23: for a leaf whose Field has no converter (nor validator nor setter), a
\* Boolean Field stores bool(candidate), a String or List Field stores the
\* candidate as it came, an Integer Field stores int(candidate) and, when
\* int() fails, leaves the attribute as it was with the leaf in ignored and
\* not in accepted; the structured Field of metadataProviders stores each
\* provider entry of the candidate as it came.
C23_KindConversion ==
  /\ Completed =>
       /\ \A p \in PlainPaths :
            LET c == get_path(BodyTree, p)
                kind == DeclaredKind[p]
            IN /\ kind = "Boolean" => Attr(app, p) = bool(c) /\ has_path(accepted, p)
               /\ kind \in {"String", "List"} => Attr(app, p) = c /\ has_path(accepted, p)
               /\ (kind = "Integer" /\ int_ok(c)) => Attr(app, p) = int(c) /\ has_path(accepted, p)
               /\ (kind = "Integer" /\ ~int_ok(c)) =>
                    /\ Attr(app, p) = Attr(preApp, p)
                    /\ has_path(ignored, p)
                    /\ ~has_path(accepted, p)
       /\ has_path(accepted, ProvidersPath) =>
            \A i \in 1..Len(get_path(BodyTree, ProvidersPath).d) :
              LET e == get_path(BodyTree, ProvidersPath).d[i]
              IN Get(app.metadata_provider_dict.d, e.key) = e.val
  /\ \A p \in DOMAIN DeclaredKind, c \in KindCandidates :
       \A r \in {patch(patches[p], app, c, "none")} :
         StoredAsKind(DeclaredKind[p], r, patches[p].attr, c, app)

\* a request that stored True for "yes" and rejected an index that is no
\* number
C23_CoercedAndRejected ==
  /\ Completed
  /\ get_path(BodyTree, "torrents.enabled") = S("yes")
  /\ app.USE_TORRENTS = B(TRUE) /\ preApp.USE_TORRENTS = B(FALSE)
  /\ get_path(BodyTree, "selectedRootIndex") = S("abc")
  /\ has_path(ignored, "selectedRootIndex")

-----------------------------------------------------------------------------
(* C24  Order of the request checks in PATCH                               *)

\* a PATCH is answered 400 without a section and 404 with a section other
\* than main whatever its body, a body that does not decode included; on
\* main a body that does not decode is answered with a 4xx status, nothing
\* dispatched, written, saved or pushed
CheckOrderStep ==
  request'.method = "PATCH" =>
    /\ request'.identifier = "" => response'.status = 400
    /\ request'.identifier \notin {"", "main"} => response'.status = 404
    /\ (request'.identifier = "main" /\ request'.body.malformed) =>
         /\ response'.status \in 400..499
         /\ events' = <<>>
         /\ accepted' = <<>> /\ ignored' = <<>>
         /\ app' = app /\ disk' = disk /\ pushed' = pushed
    /\ (request'.identifier = "main" /\ ~request'.body.malformed) =>
         response'.status \notin {400, 404}

\* C24: in a PATCH the test for a missing section (400) comes first, the test
\* for a section other than main (404) second and json_decode third: a body
\* that does not decode is answered 400 without a section, 404 on a section
\* other than main, and on main ends the request as a client error with no
\* Field looked up, no attribute changed, no save_config and no push.
C24_CheckOrder == [][CheckOrderStep]_vars

\* a body that does not decode, sent to /config/main and answered 400
C24_MalformedOnMain ==
  /\ IsPatch
  /\ request.identifier = "main"
  /\ request.body.malformed
  /\ response.status = 400
  /\ events = <<>>
  /\ app = preApp

-----------------------------------------------------------------------------
(* C25  metadataProviders special case                                     *)

\* the body holds a non-empty metadata sub-tree without a metadataProviders key
MetadataWithoutProviders ==
  /\ DecodedTree
  /\ Has(BodyTree, "metadata")
  /\ Get(BodyTree, "metadata").k = "dict"
  /\ Get(BodyTree, "metadata").d # <<>>
  /\ ~Has(Get(BodyTree, "metadata").d, "metadataProviders")

\* C25: a PATCH /config/main whose body holds a non-empty metadata sub-tree
\* without a metadataProviders key, no collaborator failing, is answered 200
\* and each leaf of the body, those under metadata included, was dispatched
\* and is in accepted or in ignored.
C25_ProvidersAbsent ==
  (MetadataWithoutProviders /\ request.fault = "none") =>
    /\ response.status = 200
    /\ \A i \in 1..Len(BodyItems) :
         /\ Dispatched(BodyItems[i].key)
         /\ has_path(accepted, BodyItems[i].key) \/ has_path(ignored, BodyItems[i].key)

\* {"metadata": {"other": 1}} beside an accepted-to-be torrents.enabled: the
\* request ended at the pop of line 411 with no answer of the handler, no
\* leaf dispatched and USE_TORRENTS not written
C25_KeyErrorAtPop ==
  /\ MetadataWithoutProviders
  /\ request.fault = "none"
  /\ has_path(BodyTree, "metadata.other")
  /\ has_path(BodyTree, "torrents.enabled")
  /\ response = server_error
  /\ events = <<>>
  /\ accepted = <<>> /\ ignored = <<>>
  /\ app.USE_TORRENTS = B(FALSE)

-----------------------------------------------------------------------------
(* C26  Accepted values are echoed                                         *)

\* C26: the 200 answer of a PATCH is the accepted tree, and every leaf of it
\* holds the value the body holds under the same path, as it arrived, whatever
\* the Field stored in the attribute.
C26_AcceptedEchoed ==
  Completed =>
    /\ response.data = D(accepted)
    /\ \A p \in Paths(accepted) :
         /\ has_path(BodyTree, p)
         /\ get_path(response.data.d, p) = get_path(BodyTree, p)

\* a 200 answer that echoes "bogus" for layout.schedule and "2" for
\* selectedRootIndex while the attributes hold 'banner' and 2
C26_EchoDiffersFromStored ==
  /\ Completed
  /\ get_path(response.data.d, "layout.schedule") = S("bogus")
  /\ app.COMING_EPS_LAYOUT = S("banner")
  /\ get_path(response.data.d, "selectedRootIndex") = S("2")
  /\ app.SELECTED_ROOT = I(2)

-----------------------------------------------------------------------------
(* C27  Order independence within a request                                *)

\* no two registered paths have the same attribute
DistinctAttributes ==
  \A p, q \in DOMAIN patches : p # q => patches[p].attr # patches[q].attr

\* the orders in which n leaves can be iterated
Orders(n) == {f \in [1..n -> 1..n] : \A i, j \in 1..n : f[i] = f[j] => i = j}

\* the loop of lines 420-425 run from the store the request found over the
\* leaves of its body taken in the order f
Reordered(f) ==
  dispatch_all(Locals(preApp), [i \in 1..Len(BodyItems) |-> BodyItems[f[i]]], "none")

\* the request answered 200 and every leaf of its body has a registered path
AllRegistered == Completed /\ Paths(BodyTree) \subseteq DOMAIN patches

\* every order of the leaves leaves the store, and the paths of accepted and
\* of ignored, as the request left them
SameInEveryOrder ==
  \A f \in Orders(Len(BodyItems)) :
    \A o \in {Reordered(f)} :
      /\ o.app = app
      /\ Paths(o.accepted) = Paths(accepted)
      /\ Paths(o.ignored) = Paths(ignored)

\* C27: no two registered paths write the same attribute, and for a PATCH
\* body whose leaves all have registered paths, iterating the leaves in any
\* other order gives the same store and the same accepted and ignored paths.
C27_OrderIndependence ==
  /\ DistinctAttributes
  /\ AllRegistered => SameInEveryOrder

\* order independence over the bodies whose leaves write pairwise different
\* attributes
C27_OrderIndependenceDistinctAttributes ==
  (AllRegistered
     /\ \A p, q \in Paths(BodyTree) : p # q => patches[p].attr # patches[q].attr)
    => SameInEveryOrder

\* {"notifiers": {"kodi": {"enabled": false, "alwaysOn": true}}} left USE_KODI
\* true; with the two leaves in the other order it is left false
C27_KodiOrderMatters ==
  /\ AllRegistered
  /\ Paths(BodyTree) = {"notifiers.kodi.enabled", "notifiers.kodi.alwaysOn"}
  /\ app.USE_KODI = B(TRUE)
  /\ \E f \in Orders(Len(BodyItems)) : Reordered(f).app.USE_KODI = B(FALSE)
  /\ accepted = BodyTree

-----------------------------------------------------------------------------
(* C28  Idempotence of PATCH                                               *)

\* a PATCH that repeats the request before it leaves the store and the file
\* as they were and gives the answer, the accepted tree and the ignored tree
\* of the first
RepeatStep ==
  (request.method = "PATCH" /\ request' = request) =>
    /\ app' = app
    /\ disk' = disk
    /\ response' = response
    /\ accepted' = accepted
    /\ ignored' = ignored

\* the attributes the validators of lines 55-57 and 129 read
ValidatorInputs == {"NAMING_FORCE_FOLDERS", "USE_SUBTITLES"}

\* no registered Field writes an attribute a validator reads
ValidatorsReadUnwritten == \A p \in DOMAIN patches : patches[p].attr \notin ValidatorInputs

\* C28: a PATCH /config/main sent twice in a row with the same body leaves the
\* store as the first request left it, and the second request answers with
\* the accepted tree of the first; the validators read only attributes that
\* no registered Field writes.
C28_Idempotence == []ValidatorsReadUnwritten /\ [][RepeatStep]_vars

\* the second of two equal requests that stored 'calendar', set the sort to
\* 'date' and ignored a leaf
C28_SentTwice ==
  /\ npatch = 2
  /\ Completed
  /\ app = preApp
  /\ app # DefaultApp
  /\ get_path(accepted, "layout.schedule") = S("calendar")
  /\ app.COMING_EPS_SORT = S("date")
  /\ ignored # <<>>

-----------------------------------------------------------------------------
(* C29  Order of the side effects of one PATCH                             *)

LeafCalls == {i \in 1..Len(events) : events[i].e = "leaf"}

\* the side effects of the last request, a PATCH, in their order
SideEffectOrder ==
  IsPatch =>
    /\ \A i \in LeafCalls, j \in SaveCalls : i < j
    /\ \A i \in SaveCalls, j \in PushCalls : i < j
    /\ Cardinality(SaveCalls) <= 1 /\ Cardinality(PushCalls) <= 1
    /\ PushCalls # {} => (SaveCalls # {} /\ request.fault # "save")
    /\ request.fault = "save" => response.status # 200
    /\ request.fault = "push" => response.status # 200
    /\ response.status = 200 =>
         /\ SaveCalls # {} /\ PushCalls # {}
         /\ events[Len(events)].e = "push"
         /\ disk = app

\* a message is pushed only by a PATCH whose save_config returned, and a PATCH
\* whose push failed adds no message and gets no 200
PushStep ==
  /\ pushed' # pushed =>
       /\ request'.method = "PATCH"
       /\ \E i \in 1..Len(events') : events'[i].e = "save_config"
       /\ request'.fault = "none"
       /\ disk' = app'
       /\ response'.status = 200
  /\ (request'.method = "PATCH" /\ response'.status = 200) => pushed' # pushed

\* C29: in one PATCH every leaf is applied before save_config is called,
\* save_config is called before the push and the push before the 200 answer
\* is made; nothing is pushed for a request whose save_config failed, and a
\* request whose push failed is not answered 200.
C29_SideEffectOrder == []SideEffectOrder /\ [][PushStep]_vars

\* a request that wrote torrents.enabled and saved, and whose push failed: no
\* message, no 200
C29_PushFailed ==
  /\ IsPatch
  /\ request.fault = "push"
  /\ app.USE_TORRENTS = B(TRUE) /\ preApp.USE_TORRENTS = B(FALSE)
  /\ disk = app
  /\ LeafCalls # {} /\ SaveCalls # {} /\ PushCalls # {}
  /\ response.status = 500
====
